---- MODULE Spec2Model ----
(***************************************************************************)
(* The persona lifecycle and state-tracking subsystem of specx_cli:        *)
(* PersonaManager (persona_manager.py), the three JSON record files it     *)
(* keeps under .specify/, and the marker file written by                   *)
(* create_agent_context_file (agent_persona_context.py).                   *)
(*                                                                         *)
(* Representation.  Optional[T] is a sequence of length <= 1 (None is the  *)
(* empty one).  A Python str that the code inspects character by character *)
(* (note texts, ISO timestamps) is a sequence of one-character strings;    *)
(* identifiers (persona ids, phases, assistants) are atomic strings.  A    *)
(* dict / JSON document is a tagged value (JNull, JStr, JNum, JArr, JObj); *)
(* a dataclass instance is a record.  A float is a binary floating-point   *)
(* number with a 53-bit significand, held as limbs.                        *)
(***************************************************************************)
EXTENDS Integers, Sequences, FiniteSets, TLC

VARIABLES
    state_file,        \* .specify/persona_state.json
    history_file,      \* .specify/persona_history.json
    performance_file,  \* .specify/persona_performance.json
    context_files,     \* <agent dir>/CURRENT_PERSONA.md, per known assistant
    export_file,       \* persona_metrics_export.json
    invocations,       \* two more processes running "persona switch" at once
    constructed,       \* a PersonaManager instance exists (a CLI invocation runs)
    current_context,   \* PersonaManager.current_context
    clock,             \* the instant datetime.now() returns
    result,            \* the call last made and its outcome
    started            \* history variable: activate_persona calls per persona

vars == <<state_file, history_file, performance_file, context_files, export_file,
          invocations,
          constructed, current_context, clock, result, started>>

-----------------------------------------------------------------------------
(* Bounds of the model.                                                    *)

MaxSessions == 2
MaxArtifacts == 1
MaxNotes == 1
MaxTime == 2
MaxAggSessions == 3
MaxRateSessions == 3
MaxRateNotes == 2

PersonaIds == {"business-analyst", "solution-architect", "tech-lead"}
Personas == {"business-analyst", "solution-architect"}
PhaseNames == {"specify", "plan"}
ArtifactPaths == {"docs/ba/requirements.md"}
NoteOk == <<"o", "k">>
NoteError == <<"E", "r", "r", "o", "r", ":", " ", "x">>
NoteUpper == <<"E", "R", "R", "O", "R">>
NoteTexts == {NoteOk, NoteError}

-----------------------------------------------------------------------------
(* Optional values and Python truthiness of the values the code tests.     *)

None == <<>>
Some(x) == <<x>>

\* F applied to the value of e, computed once
Let(e, F(_)) == CHOOSE r \in {F(x) : x \in {e}} : TRUE
IsNone(o) == Len(o) = 0

\* `if phase:` / `phase or '...'` / `if ai_assistant:` on an Optional[str]
TruthyOptStr(o) == Len(o) = 1 /\ o[1] /= ""

-----------------------------------------------------------------------------
(* Character strings: str.lower(), the `in` substring test, decimal text.  *)

UpperLetters == <<"A", "B", "C", "D", "E", "F", "G", "H", "I", "J", "K", "L", "M",
                  "N", "O", "P", "Q", "R", "S", "T", "U", "V", "W", "X", "Y", "Z">>
LowerLetters == <<"a", "b", "c", "d", "e", "f", "g", "h", "i", "j", "k", "l", "m",
                  "n", "o", "p", "q", "r", "s", "t", "u", "v", "w", "x", "y", "z">>
Digits == <<"0", "1", "2", "3", "4", "5", "6", "7", "8", "9">>

LowerChar(c) ==
    IF \E i \in 1..Len(UpperLetters) : UpperLetters[i] = c
    THEN LowerLetters[CHOOSE i \in 1..Len(UpperLetters) : UpperLetters[i] = c]
    ELSE c

StrLower(s) == [i \in 1..Len(s) |-> LowerChar(s[i])]

StrContains(s, sub) ==
    \E i \in 0..(Len(s) - Len(sub)) : SubSeq(s, i + 1, i + Len(sub)) = sub

ErrorWord == <<"e", "r", "r", "o", "r">>

RECURSIVE Dec(_)
Dec(n) == IF n < 10 THEN <<Digits[n + 1]>> ELSE Dec(n \div 10) \o <<Digits[(n % 10) + 1]>>

DigitValue(c) == (CHOOSE i \in 1..Len(Digits) : Digits[i] = c) - 1

RECURSIVE ParseDec(_)
ParseDec(s) ==
    IF Len(s) = 1 THEN DigitValue(s[1])
    ELSE ParseDec(SubSeq(s, 1, Len(s) - 1)) * 10 + DigitValue(s[Len(s)])

\* datetime.isoformat() / datetime.fromisoformat(): the text of an instant
isoformat(t) == Dec(t)
fromisoformat(s) == ParseDec(s)

-----------------------------------------------------------------------------
(* Python float: IEEE-754 binary64, round to nearest, ties to even.  A     *)
(* value is m * 2^e with m a 53-bit natural held as limbs, least           *)
(* significant first; zero is FZero.  Only non-negative values arise.      *)

Prec == 53
Base == 2^10
LimbWidth == CHOOSE w \in 1..30 : 2^w = Base

Limb(L, i) == IF i >= 1 /\ i <= Len(L) THEN L[i] ELSE 0

RECURSIVE TrimL(_)
TrimL(L) == IF L /= <<>> /\ L[Len(L)] = 0 THEN TrimL(SubSeq(L, 1, Len(L) - 1)) ELSE L

RECURSIVE NatLimbs(_)
NatLimbs(n) == IF n = 0 THEN <<>> ELSE <<n % Base>> \o NatLimbs(n \div Base)

RECURSIVE MulSmall(_, _, _)
MulSmall(L, k, c) ==
    IF L = <<>> THEN NatLimbs(c)
    ELSE LET acc == Head(L) * k + c
         IN  <<acc % Base>> \o MulSmall(Tail(L), k, acc \div Base)

BitAt(L, j) == (Limb(L, (j \div LimbWidth) + 1) \div 2^(j % LimbWidth)) % 2

BitLen(L) ==
    IF L = <<>> THEN 0
    ELSE (Len(L) - 1) * LimbWidth
         + (CHOOSE n \in 1..LimbWidth : 2^(n - 1) <= L[Len(L)] /\ L[Len(L)] < 2^n)

ShiftRight(L, d) ==
    LET w == d \div LimbWidth
        s == d % LimbWidth
    IN  TrimL([i \in 1..Len(L) |->
                 (Limb(L, i + w) \div 2^s) + (Limb(L, i + w + 1) % 2^s) * 2^(LimbWidth - s)])

ShiftLeft(L, d) ==
    LET w == d \div LimbWidth
        s == d % LimbWidth
    IN  TrimL([i \in 1..(Len(L) + w + 1) |->
                 ((Limb(L, i - w) * 2^s) % Base) + (Limb(L, i - w - 1) \div 2^(LimbWidth - s))])

FZero == [m |-> <<>>, e |-> 0]

\* the float nearest to b * 2^e, b without leading zero limbs
RoundTrimmed(b, e) ==
    LET n == BitLen(b)
    IN  IF b = <<>> THEN FZero
        ELSE IF n <= Prec THEN [m |-> ShiftLeft(b, Prec - n), e |-> e - (Prec - n)]
        ELSE LET d == n - Prec
                 kept == ShiftRight(b, d)
                 half == BitAt(b, d - 1)
                 sticky == \E j \in 0..(d - 2) : BitAt(b, j) = 1
                 up == half = 1 /\ (sticky \/ BitAt(kept, 0) = 1)
                 m1 == IF up THEN TrimL(MulSmall(kept, 1, 1)) ELSE kept
             IN  IF BitLen(m1) > Prec THEN [m |-> ShiftRight(m1, 1), e |-> e + d + 1]
                 ELSE [m |-> m1, e |-> e + d]

\* the float nearest to L * 2^e
RoundToPrec(L, e) == Let(TrimL(L), LAMBDA b : RoundTrimmed(b, e))

RECURSIVE LongDiv(_, _, _, _)
LongDiv(num, b, r, q) ==
    IF num = <<>> THEN <<q, r>>
    ELSE LET r1 == r * Base + Head(num)
         IN  LongDiv(Tail(num), b, r1 % b, <<r1 \div b>> \o q)

Reverse(s) == [i \in 1..Len(s) |-> s[Len(s) + 1 - i]]

GuardLimbs == (Prec \div LimbWidth) + 2

\* float(n) for a natural n
FromInt(n) == RoundToPrec(NatLimbs(n), 0)

\* a / b for naturals a, b > 0 (int true division is correctly rounded)
FDivInt(a, b) ==
    Let(LongDiv(Reverse(NatLimbs(a)) \o [i \in 1..GuardLimbs |-> 0], b, 0, <<>>),
        LAMBDA qr : RoundToPrec(MulSmall(qr[1], 2, IF qr[2] = 0 THEN 0 ELSE 1),
                                0 - GuardLimbs * LimbWidth - 1))

\* f * k for a float f and a small natural k
FMulInt(f, k) == Let(f, LAMBDA g : RoundToPrec(MulSmall(g.m, k, 0), g.e))

\* the real number f * k equals the natural n (no rounding)
ExactProductIs(f, k, n) ==
    TrimL(MulSmall(f.m, k, 0)) = ShiftLeft(NatLimbs(n), 0 - f.e)

\* |f * k - n| is at most `ulps` units in the last place of f
ProductWithin(f, k, n, ulps) ==
    LET fk == TrimL(MulSmall(f.m, k, 0))
        nn == ShiftLeft(NatLimbs(n), 0 - f.e)
    IN  \E d \in 0..ulps : \/ TrimL(MulSmall(fk, 1, d)) = nn
                           \/ TrimL(MulSmall(nn, 1, d)) = fk

-----------------------------------------------------------------------------
(* dict / JSON values (json.load and json.dump map them one to one), and   *)
(* the content of a file.                                                  *)

JNull == [j |-> "null"]
JStr(s) == [j |-> "string", v |-> s]
JNum(n) == [j |-> "number", v |-> n]
JArr(s) == [j |-> "array", v |-> s]
JObj(f) == [j |-> "object", v |-> f]

EmptyDict == <<>>

\* bool(x) of a parsed JSON value
Truthy(x) ==
    CASE x.j = "null" -> FALSE
      [] x.j = "number" -> x.v /= 0
      [] x.j = "string" -> x.v /= "" /\ x.v /= <<>>
      [] x.j = "array" -> x.v /= <<>>
      [] x.j = "object" -> DOMAIN x.v /= {}

OptToJson(o) == IF IsNone(o) THEN JNull ELSE JStr(o[1])
JsonToOpt(x) == IF x.j = "null" THEN None ELSE Some(x.v)
StrListToJson(l) == JArr([i \in 1..Len(l) |-> JStr(l[i])])
\* variant: the list is not read back
JsonToStrList_Dropped(x) == <<>>
JsonToStrList(x) == [i \in 1..Len(x.v) |-> x.v[i].v]

Absent == [kind |-> "absent"]            \* no such file
Unparsable == [kind |-> "unparsable"]    \* json.load raises JSONDecodeError
Json(doc) == [kind |-> "json", doc |-> doc]

exists(file) == file.kind /= "absent"

-----------------------------------------------------------------------------
(* The dataclasses PersonaContext and PersonaPerformance, asdict() and     *)
(* construction from keyword arguments (Cls called with a dict as keywords).                         *)

PersonaContext(persona_id, activated_at, phase) ==
    [persona_id |-> persona_id,
     activated_at |-> activated_at,
     deactivated_at |-> None,
     phase |-> phase,
     artifacts |-> <<>>,
     metrics |-> EmptyDict,
     notes |-> <<>>]

ContextFields ==
    {"persona_id", "activated_at", "deactivated_at", "phase", "artifacts", "metrics", "notes"}

asdict_context(c) ==
    JObj([persona_id |-> JStr(c.persona_id),
          activated_at |-> JStr(c.activated_at),
          deactivated_at |-> OptToJson(c.deactivated_at),
          phase |-> OptToJson(c.phase),
          artifacts |-> StrListToJson(c.artifacts),
          metrics |-> JObj(c.metrics),
          notes |-> StrListToJson(c.notes)])

\* the keywords PersonaContext accepts (TypeError otherwise)
ContextKwargsOk(d) ==
    /\ d.j = "object"
    /\ DOMAIN d.v \subseteq ContextFields
    /\ {"persona_id", "activated_at"} \subseteq DOMAIN d.v

ContextFromDict(d) ==
    LET has(k) == k \in DOMAIN d.v
    IN  [persona_id |-> d.v.persona_id.v,
         activated_at |-> d.v.activated_at.v,
         deactivated_at |-> IF has("deactivated_at") THEN JsonToOpt(d.v.deactivated_at) ELSE None,
         phase |-> IF has("phase") THEN JsonToOpt(d.v.phase) ELSE None,
         artifacts |-> IF has("artifacts") THEN JsonToStrList(d.v.artifacts) ELSE <<>>,
         metrics |-> IF has("metrics") THEN d.v.metrics.v ELSE EmptyDict,
         notes |-> IF has("notes") THEN JsonToStrList(d.v.notes) ELSE <<>>]

PersonaPerformance(persona_id) ==
    [persona_id |-> persona_id,
     total_sessions |-> 0,
     total_duration_seconds |-> 0,
     phases_completed |-> EmptyDict,
     artifacts_created |-> 0,
     error_count |-> 0,
     success_rate |-> FromInt(100),
     last_active |-> None]

PerformanceFields ==
    {"persona_id", "total_sessions", "total_duration_seconds", "phases_completed",
     "artifacts_created", "error_count", "success_rate", "last_active"}

asdict_performance(p) ==
    JObj([persona_id |-> JStr(p.persona_id),
          total_sessions |-> JNum(p.total_sessions),
          total_duration_seconds |-> JNum(p.total_duration_seconds),
          phases_completed |->
              JObj([ph \in DOMAIN p.phases_completed |-> JNum(p.phases_completed[ph])]),
          artifacts_created |-> JNum(p.artifacts_created),
          error_count |-> JNum(p.error_count),
          success_rate |-> JNum(p.success_rate),
          last_active |-> OptToJson(p.last_active)])

PerformanceKwargsOk(d) ==
    /\ d.j = "object"
    /\ DOMAIN d.v \subseteq PerformanceFields
    /\ "persona_id" \in DOMAIN d.v

PerformanceFromDict(d) ==
    LET has(k) == k \in DOMAIN d.v
        dflt == PersonaPerformance(d.v.persona_id.v)
    IN  [persona_id |-> d.v.persona_id.v,
         total_sessions |->
             IF has("total_sessions") THEN d.v.total_sessions.v ELSE dflt.total_sessions,
         total_duration_seconds |->
             IF has("total_duration_seconds") THEN d.v.total_duration_seconds.v
             ELSE dflt.total_duration_seconds,
         phases_completed |->
             IF has("phases_completed")
             THEN [ph \in DOMAIN d.v.phases_completed.v |-> d.v.phases_completed.v[ph].v]
             ELSE dflt.phases_completed,
         artifacts_created |->
             IF has("artifacts_created") THEN d.v.artifacts_created.v
             ELSE dflt.artifacts_created,
         error_count |-> IF has("error_count") THEN d.v.error_count.v ELSE dflt.error_count,
         success_rate |-> IF has("success_rate") THEN d.v.success_rate.v ELSE dflt.success_rate,
         last_active |-> IF has("last_active") THEN JsonToOpt(d.v.last_active) ELSE dflt.last_active]

-----------------------------------------------------------------------------
(* Persistent State Store: the load and save methods of PersonaManager.    *)

\* the value of self.current_context after _load_state, `cur` being its value before
_load_state(file, cur) ==
    IF file.kind /= "json" THEN None            \* open() or json.load() raised
    ELSE IF file.doc.j /= "object" THEN None    \* data.get raised AttributeError
    ELSE LET cp == IF "current_persona" \in DOMAIN file.doc.v
                   THEN file.doc.v.current_persona ELSE JNull
         IN  IF ~Truthy(cp) THEN cur
             ELSE IF ContextKwargsOk(cp) THEN Some(ContextFromDict(cp))
             ELSE None                          \* PersonaContext raised TypeError

\* the content _save_state writes
_save_state(cur, now) ==
    Json(JObj([current_persona |-> IF IsNone(cur) THEN JNull ELSE asdict_context(cur[1]),
               updated_at |-> JStr(isoformat(now))]))

\* whatever JSON value the file holds, or [] when it cannot be read
_load_history(file) == IF file.kind = "json" THEN file.doc ELSE JArr(<<>>)

_save_history(history) == Json(history)

_load_performance(file) ==
    IF file.kind /= "json" THEN EmptyDict
    ELSE IF file.doc.j /= "object" THEN EmptyDict   \* data.items() raised AttributeError
    ELSE IF \E pid \in DOMAIN file.doc.v : ~PerformanceKwargsOk(file.doc.v[pid])
    THEN EmptyDict                                  \* PersonaPerformance raised TypeError
    ELSE [pid \in DOMAIN file.doc.v |-> PerformanceFromDict(file.doc.v[pid])]

_save_performance(performance) ==
    Json(JObj([pid \in DOMAIN performance |-> asdict_performance(performance[pid])]))

-----------------------------------------------------------------------------
(* Agent Context Notifier: create_agent_context_file.                      *)

context_paths ==
    {"copilot", "claude", "cursor-agent", "windsurf", "gemini", "qwen", "opencode",
     "codex", "kilocode", "auggie", "codebuddy", "roo", "q", "amp"}

\* the text written: the persona and the two renderings of the phase
MarkerContent(persona_id, phase) ==
    [kind |-> "text",
     active_persona |-> persona_id,
     phase |-> IF TruthyOptStr(phase) THEN phase[1] ELSE "Not specified",
     current_phase |-> IF TruthyOptStr(phase) THEN phase[1] ELSE "unspecified"]

\* the agent directory cannot be made or written (a file stands in its
\* place, or permission is missing): mkdir or open raises OSError
Blocked == [kind |-> "blocked"]

\* variant: the phase is not passed on to the marker
create_agent_context_file_WithoutPhase(files, ai_assistant, persona_id, phase) ==
    IF ai_assistant \notin context_paths
    THEN [files |-> files, ret |-> FALSE, exc |-> None]
    ELSE IF IsNone(persona_id)
    THEN [files |-> [files EXCEPT ![ai_assistant] = Absent], ret |-> TRUE, exc |-> None]
    ELSE [files |-> [files EXCEPT ![ai_assistant] = MarkerContent(persona_id[1], None)],
          ret |-> TRUE, exc |-> None]

\* files: the marker files; gives the files afterwards, the bool returned
\* and the exception raised, if any
create_agent_context_file(files, ai_assistant, persona_id, phase) ==
    IF ai_assistant \notin context_paths
    THEN [files |-> files, ret |-> FALSE, exc |-> None]
    ELSE IF files[ai_assistant] = Blocked
    THEN [files |-> files, ret |-> FALSE, exc |-> Some("OSError")]
    ELSE IF IsNone(persona_id)
    THEN [files |-> [files EXCEPT ![ai_assistant] = Absent], ret |-> TRUE, exc |-> None]
    ELSE [files |-> [files EXCEPT ![ai_assistant] = MarkerContent(persona_id[1], phase)],
          ret |-> TRUE, exc |-> None]

-----------------------------------------------------------------------------
(* PersonaManager.  A method is an operator from the world it runs in      *)
(* (w: the instance's current_context and the files) to an outcome: the    *)
(* world afterwards, the value returned, and the exception raised, if any. *)

World ==
    [current_context |-> current_context,
     state_file |-> state_file,
     history_file |-> history_file,
     performance_file |-> performance_file,
     context_files |-> context_files,
     export_file |-> export_file]

Returned(w, ret) == [w |-> w, ret |-> ret, exc |-> None]
Raised(w, exc) == [w |-> w, ret |-> None, exc |-> Some(exc)]

_ensure_files(w, now) ==
    LET w1 == IF exists(w.state_file) THEN w
              ELSE [w EXCEPT !.state_file = _save_state(w.current_context, now)]
        w2 == IF exists(w1.history_file) THEN w1
              ELSE [w1 EXCEPT !.history_file = _save_history(JArr(<<>>))]
    IN  IF exists(w2.performance_file) THEN w2
        ELSE [w2 EXCEPT !.performance_file = _save_performance(EmptyDict)]

\* PersonaManager(project_path)
__init__(w, now) ==
    LET w0 == [w EXCEPT !.current_context = None]
        w1 == _ensure_files(w0, now)
    IN  [w1 EXCEPT !.current_context = _load_state(w1.state_file, w1.current_context)]

\* only ImportError is caught: what create_agent_context_file raises goes on
\* to the caller, and the bool it returns is dropped
_update_agent_context(w, ai_assistant, persona_id, phase) ==
    Let(create_agent_context_file(w.context_files, ai_assistant, persona_id, phase),
        LAMBDA r : IF IsNone(r.exc) THEN Returned([w EXCEPT !.context_files = r.files], None)
                   ELSE Raised(w, r.exc[1]))

\* variant: the test without note.lower()
NoteHasError_CaseSensitive(note) == StrContains(note, ErrorWord)
NoteHasError(note) == StrContains(StrLower(note), ErrorWord)

\* variant: the session is not counted
total_sessions_after_Uncounted(perf0) == perf0.total_sessions

\* one session folded into the record perf0 of its persona
total_sessions_after(perf0) == perf0.total_sessions + 1

\* variant: = in place of +=
total_duration_after_Assigned(perf0, duration) == duration

total_duration_after(perf0, duration) == perf0.total_duration_seconds + duration

\* variant: counts the session, not its artifacts
artifacts_created_after_PerSession(perf0, context) ==
    perf0.artifacts_created + 1

artifacts_created_after(perf0, context) ==
    perf0.artifacts_created + Len(context.artifacts)

\* variant: the count of the phase starts again at 1
phases_completed_after_Restarted(perf0, context) ==
    IF TruthyOptStr(context.phase)
    THEN [k \in DOMAIN perf0.phases_completed \cup {context.phase[1]} |->
             IF k = context.phase[1] THEN 1 ELSE perf0.phases_completed[k]]
    ELSE perf0.phases_completed

phases_completed_after(perf0, context) ==
    IF TruthyOptStr(context.phase)
    THEN LET ph == context.phase[1]
             old == IF ph \in DOMAIN perf0.phases_completed
                    THEN perf0.phases_completed[ph] ELSE 0
         IN  [k \in DOMAIN perf0.phases_completed \cup {ph} |->
                 IF k = ph THEN old + 1 ELSE perf0.phases_completed[k]]
    ELSE perf0.phases_completed

error_count_after(perf0, context) ==
    IF \E i \in 1..Len(context.notes) : NoteHasError(context.notes[i])
    THEN perf0.error_count + 1 ELSE perf0.error_count

\* variant: the rate is left as it was
success_rate_after_Stale(perf0, sessions, errors) == perf0.success_rate

success_rate_after(perf0, sessions, errors) ==
    IF sessions > 0 THEN FMulInt(FDivInt(sessions - errors, sessions), 100)
    ELSE perf0.success_rate

\* the record of one persona after a session of it has been folded in
FoldSession(perf0, context, duration) ==
    LET sessions == total_sessions_after(perf0)
        errors == error_count_after(perf0, context)
    IN  [persona_id |-> perf0.persona_id,
         total_sessions |-> sessions,
         total_duration_seconds |-> total_duration_after(perf0, duration),
         phases_completed |-> phases_completed_after(perf0, context),
         artifacts_created |-> artifacts_created_after(perf0, context),
         error_count |-> errors,
         success_rate |-> success_rate_after(perf0, sessions, errors),
         last_active |-> context.deactivated_at]

\* the performance mapping _update_performance saves
\* variant: the mapping saved holds the session's persona only
UpdatedPerformance_OnlyThis(performance, context, duration) ==
    LET pid == context.persona_id
        perf0 == IF pid \in DOMAIN performance THEN performance[pid]
                 ELSE PersonaPerformance(pid)
    IN  Let(FoldSession(perf0, context, duration),
            LAMBDA perf : [p \in {pid} |-> perf])

UpdatedPerformance(performance, context, duration) ==
    LET pid == context.persona_id
        perf0 == IF pid \in DOMAIN performance THEN performance[pid]
                 ELSE PersonaPerformance(pid)
    IN  Let(FoldSession(perf0, context, duration),
            LAMBDA perf : [p \in DOMAIN performance \cup {pid} |->
                              IF p = pid THEN perf ELSE performance[p]])

\* the content of the performance file after _update_performance
_update_performance(file, context, duration) ==
    Let(_load_performance(file),
        LAMBDA performance :
            _save_performance(UpdatedPerformance(performance, context, duration)))

\* variant: the cleared state is not saved
ClearCurrent_OnlyInMemory(w, now) == [w EXCEPT !.current_context = None]

\* variant: the cleared state is saved but self.current_context is kept
ClearCurrent_OnlyOnDisk(w, now) == [w EXCEPT !.state_file = _save_state(None, now)]

\* self.current_context = None; self._save_state()
ClearCurrent(w, now) ==
    [w EXCEPT !.current_context = None, !.state_file = _save_state(None, now)]

\* deactivate_persona past its first check: a persona is active
\* the subtraction with start and end exchanged
SessionDuration_Reversed(context) ==
    fromisoformat(context.activated_at) - fromisoformat(context.deactivated_at[1])

\* (end - start).total_seconds() of a context whose deactivated_at is set
SessionDuration(context) ==
    fromisoformat(context.deactivated_at[1]) - fromisoformat(context.activated_at)

\* variant: the snapshot appended to history is taken before deactivated_at
\* is set
DeactivateCurrent_Unstamped(w, now) ==
    LET context == [w.current_context[1] EXCEPT !.deactivated_at = Some(isoformat(now))]
        duration == SessionDuration(context)
        history == _load_history(w.history_file)
    IN  IF history.j /= "array"
        THEN Raised([w EXCEPT !.current_context = Some(context)], "AttributeError")
        ELSE Returned(ClearCurrent(
                          [w EXCEPT
                              !.history_file =
                                  _save_history(JArr(Append(history.v,
                                                     asdict_context(w.current_context[1])))),
                              !.performance_file =
                                  _update_performance(w.performance_file, context, duration)],
                          now),
                      Some([status |-> "deactivated",
                            persona |-> context.persona_id,
                            duration_seconds |-> duration,
                            artifacts |-> Len(context.artifacts)]))

DeactivateCurrent(w, now) ==
    LET context == [w.current_context[1] EXCEPT !.deactivated_at = Some(isoformat(now))]
        wm == [w EXCEPT !.current_context = Some(context)]
        duration == SessionDuration(context)
        history == _load_history(w.history_file)
    IN  IF history.j /= "array"
        THEN Raised(wm, "AttributeError")   \* history.append on a non-list
        ELSE LET appended == JArr(Append(history.v, asdict_context(context)))
                 ret == [status |-> "deactivated",
                         persona |-> context.persona_id,
                         duration_seconds |-> duration,
                         artifacts |-> Len(context.artifacts)]
             IN  Returned(ClearCurrent(
                              [wm EXCEPT
                                  !.history_file = _save_history(appended),
                                  !.performance_file =
                                      _update_performance(w.performance_file, context, duration)],
                              now),
                          Some(ret))

\* variant: the state is saved even when nothing is active
\* deactivate_persona treating "nothing to deactivate" as an error
deactivate_persona_RaisingWhenIdle(w, ai_assistant, now) ==
    IF IsNone(w.current_context) THEN Raised(w, "ValueError")
    ELSE DeactivateCurrent(w, now)

deactivate_persona_SavingWhenIdle(w, ai_assistant, now) ==
    IF IsNone(w.current_context) THEN Returned(ClearCurrent(w, now), None)
    ELSE DeactivateCurrent(w, now)

deactivate_persona(w, ai_assistant, now) ==
    IF IsNone(w.current_context) THEN Returned(w, None)
    ELSE DeactivateCurrent(w, now)

\* activate_persona once the current persona, if any, has been deactivated
\* with outcome d
ActivateAfter(d, persona_id, phase, ai_assistant, now) ==
    IF ~IsNone(d.exc) THEN Raised(d.w, d.exc[1])
    ELSE LET context == PersonaContext(persona_id, isoformat(now), phase)
             w1 == [d.w EXCEPT !.current_context = Some(context),
                               !.state_file = _save_state(Some(context), now)]
             n == IF TruthyOptStr(ai_assistant)
                  THEN _update_agent_context(w1, ai_assistant[1], Some(persona_id), phase)
                  ELSE Returned(w1, None)
         IN  IF ~IsNone(n.exc) THEN Raised(n.w, n.exc[1])
             ELSE Returned(n.w, [status |-> "activated",
                                 persona |-> persona_id,
                                 phase |-> phase,
                                 activated_at |-> context.activated_at])

\* variant: the active persona is not deactivated first
activate_persona_KeepingCurrent(w, persona_id, phase, ai_assistant, now) ==
    ActivateAfter(Returned(w, None), persona_id, phase, ai_assistant, now)

activate_persona(w, persona_id, phase, ai_assistant, now) ==
    Let(IF IsNone(w.current_context) THEN Returned(w, None)
        ELSE deactivate_persona(w, ai_assistant, now),
        LAMBDA d : ActivateAfter(d, persona_id, phase, ai_assistant, now))

\* variant: the new persona is activated without the phase
SwitchAfter_DroppingPhase(d, previous, new_persona_id, phase, ai_assistant, now) ==
    IF ~IsNone(d.exc) THEN Raised(d.w, d.exc[1])
    ELSE Let(activate_persona(d.w, new_persona_id, None, ai_assistant, now),
             LAMBDA a : IF ~IsNone(a.exc) THEN a
                        ELSE Returned(a.w, [status |-> a.ret.status,
                                            persona |-> a.ret.persona,
                                            phase |-> a.ret.phase,
                                            activated_at |-> a.ret.activated_at,
                                            previous_persona |-> previous]))

\* switch_persona once the current persona, if any, has been deactivated
\* with outcome d
SwitchAfter(d, previous, new_persona_id, phase, ai_assistant, now) ==
    IF ~IsNone(d.exc) THEN Raised(d.w, d.exc[1])
    ELSE Let(activate_persona(d.w, new_persona_id, phase, ai_assistant, now),
             LAMBDA a : IF ~IsNone(a.exc) THEN a
                        ELSE Returned(a.w, [status |-> a.ret.status,
                                            persona |-> a.ret.persona,
                                            phase |-> a.ret.phase,
                                            activated_at |-> a.ret.activated_at,
                                            previous_persona |-> previous]))

switch_persona(w, new_persona_id, phase, ai_assistant, now) ==
    Let(IF IsNone(w.current_context) THEN Returned(w, None)
        ELSE deactivate_persona(w, ai_assistant, now),
        LAMBDA d : SwitchAfter(d,
                               IF IsNone(w.current_context) THEN None
                               ELSE Some(w.current_context[1].persona_id),
                               new_persona_id, phase, ai_assistant, now))

get_current_persona(w) ==
    IF IsNone(w.current_context) THEN None ELSE Some(w.current_context[1].persona_id)

\* add_artifact without its _save_state
add_artifact_NotSaving(w, artifact_path, now) ==
    IF IsNone(w.current_context) THEN w
    ELSE [w EXCEPT !.current_context =
              Some([w.current_context[1] EXCEPT !.artifacts = Append(@, artifact_path)])]

add_artifact(w, artifact_path, now) ==
    IF IsNone(w.current_context) THEN w
    ELSE LET context == [w.current_context[1] EXCEPT
                            !.artifacts = Append(@, artifact_path)]
         IN  [w EXCEPT !.current_context = Some(context),
                       !.state_file = _save_state(Some(context), now)]

\* f"[{datetime.now().isoformat()}] {note}"
FormatNote(note, now) == <<"[">> \o isoformat(now) \o <<"]", " ">> \o note

add_note(w, note, now) ==
    IF IsNone(w.current_context) THEN w
    ELSE LET context == [w.current_context[1] EXCEPT
                            !.notes = Append(@, FormatNote(note, now))]
         IN  [w EXCEPT !.current_context = Some(context),
                       !.state_file = _save_state(Some(context), now)]

\* update_phase with the save outside the "if self.current_context" block
update_phase_SavingWhenIdle(w, phase, now) ==
    IF IsNone(w.current_context)
    THEN [w EXCEPT !.state_file = _save_state(None, now)]
    ELSE LET context == [w.current_context[1] EXCEPT !.phase = Some(phase)]
         IN  [w EXCEPT !.current_context = Some(context),
                       !.state_file = _save_state(Some(context), now)]

update_phase(w, phase, now) ==
    IF IsNone(w.current_context) THEN w
    ELSE LET context == [w.current_context[1] EXCEPT !.phase = Some(phase)]
         IN  [w EXCEPT !.current_context = Some(context),
                       !.state_file = _save_state(Some(context), now)]

\* round(seconds / 60, 2) of a whole number of seconds, in hundredths of a
\* minute: seconds * 100 / 60 is never half-way between two hundredths
MinutesRounded(seconds) == (seconds * 10 + 3) \div 6

\* the fields of the formatted record that are copied from the stored one,
\* and the total in minutes
_format_performance(perf) ==
    [persona_id |-> perf.persona_id,
     total_sessions |-> perf.total_sessions,
     total_duration_minutes |-> [hundredths |-> MinutesRounded(perf.total_duration_seconds)],
     phases_completed |-> perf.phases_completed,
     artifacts_created |-> perf.artifacts_created,
     error_count |-> perf.error_count,
     last_active |-> perf.last_active]

\* variant: every record is returned when the persona has none
get_performance_report_AllWhenAbsent(w, persona_id) ==
    LET performance == _load_performance(w.performance_file)
    IN  IF TruthyOptStr(persona_id) /\ persona_id[1] \in DOMAIN performance
        THEN [kind |-> "record", record |-> _format_performance(performance[persona_id[1]])]
        ELSE [kind |-> "all",
              report |-> [pid \in DOMAIN performance |-> _format_performance(performance[pid])]]

get_performance_report(w, persona_id) ==
    LET performance == _load_performance(w.performance_file)
    IN  IF TruthyOptStr(persona_id)
        THEN IF persona_id[1] \in DOMAIN performance
             THEN [kind |-> "record", record |-> _format_performance(performance[persona_id[1]])]
             ELSE [kind |-> "error", persona |-> persona_id[1]]
        ELSE [kind |-> "all",
              report |-> [pid \in DOMAIN performance |-> _format_performance(performance[pid])]]

\* the slice taken from the front: notes[:5]
LastNotes_First(notes, n) ==
    IF Len(notes) <= n THEN notes ELSE SubSeq(notes, 1, n)

LastNotes(notes, n) ==
    IF Len(notes) <= n THEN notes ELSE SubSeq(notes, Len(notes) - n + 1, Len(notes))

SummaryNotes == 5

get_context_summary(w, now) ==
    IF IsNone(w.current_context) THEN [status |-> "no_active_persona"]
    ELSE LET c == w.current_context[1]
         IN  [status |-> "active",
              persona |-> c.persona_id,
              phase |-> c.phase,
              duration_seconds |-> now - fromisoformat(c.activated_at),
              artifacts |-> c.artifacts,
              notes |-> LastNotes(c.notes, SummaryNotes),
              activated_at |-> c.activated_at]

-----------------------------------------------------------------------------
(* The state machine: one action per call on the PersonaManager of the     *)
(* running invocation, plus the start and the end of an invocation and the *)
(* passing of time.                                                        *)

SetWorld(w) ==
    /\ current_context' = w.current_context
    /\ state_file' = w.state_file
    /\ history_file' = w.history_file
    /\ performance_file' = w.performance_file
    /\ context_files' = w.context_files
    /\ export_file' = w.export_file
    /\ UNCHANGED invocations

\* the call last made: the method, the persona that was active when it was
\* called, the ai_assistant it was given, the value it returned and the
\* exception it raised
CalledWith(op, ai_assistant, ret, exc) ==
    [op |-> op, was |-> get_current_persona(World), target |-> ai_assistant,
     ret |-> ret, exc |-> exc]

Called(op, ret, exc) == CalledWith(op, None, ret, exc)

\* The processes that run "persona switch" concurrently with each other: what
\* each holds in memory (its manager's current_context, the history list and
\* the performance mapping it loaded) and where it is in switch_persona.
Invocations == {1, 2}

NotStarted ==
    [pc |-> "not_started", new_persona_id |-> "", current_context |-> None,
     history |-> JArr(<<>>), performance |-> EmptyDict, appended |-> JNull]

Init ==
    /\ state_file = Absent
    /\ history_file = Absent
    /\ performance_file = Absent
    /\ context_files = [a \in context_paths |-> Absent]
    /\ export_file = Absent
    /\ invocations = [i \in Invocations |-> NotStarted]
    /\ constructed = FALSE
    /\ current_context = None
    /\ clock = 0
    /\ result = [op |-> "none", was |-> None, target |-> None, ret |-> None, exc |-> None]
    /\ started = [p \in PersonaIds |-> 0]

\* a CLI invocation starts: manager = PersonaManager(project_path)
Construct ==
    /\ ~constructed
    /\ \E w \in {__init__(World, clock)} : SetWorld(w)
    /\ constructed' = TRUE
    /\ result' = Called("__init__", None, None)
    /\ UNCHANGED <<clock, started>>

\* the invocation ends; its instance is gone
Exit ==
    /\ constructed
    /\ constructed' = FALSE
    /\ current_context' = None
    /\ UNCHANGED <<state_file, history_file, performance_file, context_files, export_file, invocations,
                   clock, result, started>>

Tick(t) ==
    /\ clock' = t
    /\ UNCHANGED <<state_file, history_file, performance_file, context_files, export_file, invocations,
                   constructed, current_context, result, started>>

\* the call got as far as creating the new PersonaContext
Created(o) ==
    /\ ~IsNone(o.w.current_context)
    /\ IsNone(o.w.current_context[1].deactivated_at)

ActivatePersona(persona_id, phase, ai_assistant) ==
    /\ constructed
    /\ \E o \in {activate_persona(World, persona_id, phase, ai_assistant, clock)} :
           /\ SetWorld(o.w)
           /\ result' = CalledWith("activate_persona", ai_assistant, Some(o.ret), o.exc)
           /\ started' = IF Created(o) THEN [started EXCEPT ![persona_id] = @ + 1]
                         ELSE started
    /\ UNCHANGED <<constructed, clock>>

DeactivatePersona(ai_assistant) ==
    /\ constructed
    /\ \E o \in {deactivate_persona(World, ai_assistant, clock)} :
           /\ SetWorld(o.w)
           /\ result' = CalledWith("deactivate_persona", ai_assistant, o.ret, o.exc)
    /\ UNCHANGED <<constructed, clock, started>>

SwitchPersona(new_persona_id, phase, ai_assistant) ==
    /\ constructed
    /\ \E o \in {switch_persona(World, new_persona_id, phase, ai_assistant, clock)} :
           /\ SetWorld(o.w)
           /\ result' = CalledWith("switch_persona", ai_assistant, Some(o.ret), o.exc)
           /\ started' = IF Created(o) THEN [started EXCEPT ![new_persona_id] = @ + 1]
                         ELSE started
    /\ UNCHANGED <<constructed, clock>>

AddArtifact(artifact_path) ==
    /\ constructed
    /\ \E w \in {add_artifact(World, artifact_path, clock)} : SetWorld(w)
    /\ result' = Called("add_artifact", None, None)
    /\ UNCHANGED <<constructed, clock, started>>

AddNote(note) ==
    /\ constructed
    /\ \E w \in {add_note(World, note, clock)} : SetWorld(w)
    /\ result' = Called("add_note", None, None)
    /\ UNCHANGED <<constructed, clock, started>>

UpdatePhase(phase) ==
    /\ constructed
    /\ \E w \in {update_phase(World, phase, clock)} : SetWorld(w)
    /\ result' = Called("update_phase", None, None)
    /\ UNCHANGED <<constructed, clock, started>>

\* history.sort(key=activated_at, reverse=True): list.sort is stable, also
\* when reversed, so entries with equal keys keep their order.  ISO-8601
\* texts of one format compare as strings the way their instants compare.
InsertNewestFirst(sorted, e) ==
    LET key(x) == fromisoformat(x.v.activated_at.v)
        k == Cardinality({i \in 1..Len(sorted) : key(sorted[i]) >= key(e)})
    IN  SubSeq(sorted, 1, k) \o <<e>> \o SubSeq(sorted, k + 1, Len(sorted))

RECURSIVE SortNewestFirst(_)
SortNewestFirst(history) ==
    IF history = <<>> THEN <<>>
    ELSE InsertNewestFirst(SortNewestFirst(SubSeq(history, 1, Len(history) - 1)),
                           history[Len(history)])

\* variant: the sorted list is written back to the history file
get_session_history_SavingSorted(w, limit) ==
    LET history == _load_history(w.history_file)
    IN  IF history.j /= "array"
        THEN Raised(w, "AttributeError")
        ELSE Let(SortNewestFirst(history.v),
                 LAMBDA sorted :
                     Returned([w EXCEPT !.history_file = _save_history(JArr(sorted))],
                              SubSeq(sorted, 1, IF limit < Len(sorted) THEN limit
                                                ELSE Len(sorted))))

get_session_history(w, limit) ==
    LET history == _load_history(w.history_file)
    IN  IF history.j /= "array"
        THEN Raised(w, "AttributeError")    \* history.sort on a non-list
        ELSE Let(SortNewestFirst(history.v),
                 LAMBDA sorted :
                     Returned(w, SubSeq(sorted, 1, IF limit < Len(sorted) THEN limit
                                                   ELSE Len(sorted))))

DefaultExportPath == "persona_metrics_export.json"

\* output_path is None or the default path: the one export file of the model
export_metrics(w, output_path, now) ==
    Let(get_session_history(w, 50),
        LAMBDA recent :
            IF ~IsNone(recent.exc) THEN Raised(w, recent.exc[1])
            ELSE Returned(
                     [w EXCEPT !.export_file =
                         Json([exported_at |-> isoformat(now),
                               current_state |-> get_context_summary(w, now),
                               performance |-> get_performance_report(w, None),
                               recent_history |-> recent.ret])],
                     IF TruthyOptStr(output_path) THEN output_path[1]
                     ELSE DefaultExportPath))

GetContextSummary ==
    /\ constructed
    /\ result' = Called("get_context_summary", Some(get_context_summary(World, clock)), None)
    /\ UNCHANGED <<state_file, history_file, performance_file, context_files, export_file, invocations,
                   constructed, current_context, clock, started>>

GetPerformanceReport(persona_id) ==
    /\ constructed
    /\ result' = Called("get_performance_report",
                        Some(get_performance_report(World, persona_id)), None)
    /\ UNCHANGED <<state_file, history_file, performance_file, context_files, export_file, invocations,
                   constructed, current_context, clock, started>>

GetSessionHistory(limit) ==
    /\ constructed
    /\ \E o \in {get_session_history(World, limit)} :
           /\ SetWorld(o.w)
           /\ result' = Called("get_session_history", Some(o.ret), o.exc)
    /\ UNCHANGED <<constructed, clock, started>>

ExportMetrics(output_path) ==
    /\ constructed
    /\ \E o \in {export_metrics(World, output_path, clock)} :
           /\ SetWorld(o.w)
           /\ result' = Called("export_metrics", Some(o.ret), o.exc)
    /\ UNCHANGED <<constructed, clock, started>>

-----------------------------------------------------------------------------
(* Specifications: the inputs and the bounds under which the actions run.  *)

RECURSIVE SumOver(_, _)
SumOver(f, S) ==
    IF S = {} THEN 0
    ELSE LET x == CHOOSE y \in S : TRUE IN f[x] + SumOver(f, S \ {x})

SessionsStarted == SumOver(started, PersonaIds)

OptPhases == {None} \cup {Some(ph) : ph \in PhaseNames}
OptPersonas == {None} \cup {Some(p) : p \in Personas}

ArtifactRoom ==
    IF IsNone(current_context) THEN TRUE
    ELSE Len(current_context[1].artifacts) < MaxArtifacts
NoteRoom(n) ==
    IF IsNone(current_context) THEN TRUE ELSE Len(current_context[1].notes) < n

\* The lifecycle on a project that starts fresh: two personas, phases,
\* artifacts, notes and a clock that advances between calls.
Next ==
    \/ Construct
    \/ Exit
    \/ clock < MaxTime /\ Tick(clock + 1)
    \/ \E p \in Personas, ph \in OptPhases :
          SessionsStarted < MaxSessions /\ ActivatePersona(p, ph, None)
    \/ \E p \in Personas, ph \in OptPhases :
          SessionsStarted < MaxSessions /\ SwitchPersona(p, ph, None)
    \/ DeactivatePersona(None)
    \/ \E path \in ArtifactPaths : ArtifactRoom /\ AddArtifact(path)
    \/ NoteRoom(MaxNotes) /\ AddNote(NoteOk)
    \/ \E ph \in PhaseNames : UpdatePhase(ph)

Spec == Init /\ [][Next]_vars

\* Sessions of two personas interleaved: durations and artifact counts.
NextAgg ==
    \/ Construct
    \/ Exit
    \/ clock < MaxTime /\ Tick(clock + 1)
    \/ \E p \in Personas :
          SessionsStarted < MaxAggSessions /\ ActivatePersona(p, None, None)
    \/ \E p \in Personas :
          SessionsStarted < MaxAggSessions /\ SwitchPersona(p, None, None)
    \/ DeactivatePersona(None)
    \/ \E path \in ArtifactPaths : ArtifactRoom /\ AddArtifact(path)

SpecAgg == Init /\ [][NextAgg]_vars

\* Many sessions of one persona, with notes that do or do not report an error.
RatePersona == "tech-lead"
RateNotes == {NoteOk, NoteError, NoteUpper}

NextRate ==
    \/ Construct
    \/ Exit
    \/ started[RatePersona] < MaxRateSessions /\ ActivatePersona(RatePersona, None, None)
    \/ started[RatePersona] < MaxRateSessions /\ SwitchPersona(RatePersona, None, None)
    \/ DeactivatePersona(None)
    \/ \E note \in RateNotes : NoteRoom(MaxRateNotes) /\ AddNote(note)

SpecRate == Init /\ [][NextRate]_vars

\* The record files are damaged from outside at any moment: removed, left
\* unparsable, or replaced by valid JSON of another shape ({} or []).
DamagedContents == {Absent, Unparsable, Json(JObj(EmptyDict)), Json(JArr(<<>>))}

DamageStateFile(c) ==
    /\ state_file' = c
    /\ UNCHANGED <<history_file, performance_file, context_files, export_file, invocations,
                   constructed, current_context, clock, result, started>>

DamageHistoryFile(c) ==
    /\ history_file' = c
    /\ UNCHANGED <<state_file, performance_file, context_files, export_file, invocations,
                   constructed, current_context, clock, result, started>>

DamagePerformanceFile(c) ==
    /\ performance_file' = c
    /\ UNCHANGED <<state_file, history_file, context_files, export_file, invocations,
                   constructed, current_context, clock, result, started>>

FaultPersona == "business-analyst"

NextFault ==
    \/ Construct
    \/ Exit
    \/ SessionsStarted < MaxSessions /\ ActivatePersona(FaultPersona, None, None)
    \/ SessionsStarted < MaxSessions /\ SwitchPersona(FaultPersona, None, None)
    \/ DeactivatePersona(None)
    \/ GetContextSummary
    \/ \E p \in {None, Some(FaultPersona)} : GetPerformanceReport(p)
    \/ \E c \in DamagedContents : DamageStateFile(c)
    \/ \E c \in DamagedContents : DamageHistoryFile(c)
    \/ \E c \in DamagedContents : DamagePerformanceFile(c)

SpecFault == Init /\ [][NextFault]_vars

\* Calls that name the assistant to notify: one create_agent_context_file
\* knows, one it does not.
KnownAssistant == "claude"
UnknownAssistant == "jetbrains"
OptAssistants == {None, Some(KnownAssistant), Some(UnknownAssistant)}
NotifyPhases == {None, Some("plan")}

NextNotify ==
    \/ Construct
    \/ Exit
    \/ \E p \in Personas, ph \in NotifyPhases, a \in OptAssistants :
          SessionsStarted < MaxSessions /\ ActivatePersona(p, ph, a)
    \/ \E p \in Personas, ph \in NotifyPhases, a \in OptAssistants :
          SessionsStarted < MaxSessions /\ SwitchPersona(p, ph, a)
    \/ \E a \in OptAssistants : DeactivatePersona(a)

SpecNotify == Init /\ [][NextNotify]_vars

\* The agent directory of the known assistant becomes unusable, or usable
\* again, from outside.
BlockMarker ==
    /\ context_files[KnownAssistant] /= Blocked
    /\ context_files' = [context_files EXCEPT ![KnownAssistant] = Blocked]
    /\ UNCHANGED <<state_file, history_file, performance_file, export_file, invocations,
                   constructed, current_context, clock, result, started>>

UnblockMarker ==
    /\ context_files[KnownAssistant] = Blocked
    /\ context_files' = [context_files EXCEPT ![KnownAssistant] = Absent]
    /\ UNCHANGED <<state_file, history_file, performance_file, export_file, invocations,
                   constructed, current_context, clock, result, started>>

NextNotifyFault ==
    \/ Construct
    \/ Exit
    \/ \E p \in Personas, a \in OptAssistants :
          SessionsStarted < MaxSessions /\ ActivatePersona(p, None, a)
    \/ \E p \in Personas, a \in OptAssistants :
          SessionsStarted < MaxSessions /\ SwitchPersona(p, None, a)
    \/ \E a \in OptAssistants : DeactivatePersona(a)
    \/ BlockMarker
    \/ UnblockMarker

SpecNotifyFault == Init /\ [][NextNotifyFault]_vars

\* The process is killed while a save method is writing.  open(file, 'w') has
\* emptied the file by then, so what is left is a prefix of the new text:
\* unparsable, or the whole new content when every byte had been written.
InterruptedSave(new) == {Unparsable, new}

\* the instance is gone with its process
Killed(op) ==
    /\ constructed' = FALSE
    /\ current_context' = None
    /\ result' = Called(op, None, Some("killed"))
    /\ UNCHANGED <<context_files, export_file, invocations, clock, started>>

\* add_artifact killed inside _save_state
AddArtifactKilled(artifact_path) ==
    /\ constructed
    /\ ~IsNone(current_context)
    /\ \E c \in InterruptedSave(add_artifact(World, artifact_path, clock).state_file) :
           state_file' = c
    /\ UNCHANGED <<history_file, performance_file>>
    /\ Killed("add_artifact")

\* deactivate_persona killed inside _save_history
DeactivateKilledInHistory ==
    /\ constructed
    /\ ~IsNone(current_context)
    /\ \E o \in {DeactivateCurrent(World, clock)} :
           /\ IsNone(o.exc)
           /\ \E c \in InterruptedSave(o.w.history_file) : history_file' = c
    /\ UNCHANGED <<state_file, performance_file>>
    /\ Killed("deactivate_persona")

\* deactivate_persona killed inside _save_performance, the history saved
DeactivateKilledInPerformance ==
    /\ constructed
    /\ ~IsNone(current_context)
    /\ \E o \in {DeactivateCurrent(World, clock)} :
           /\ IsNone(o.exc)
           /\ history_file' = o.w.history_file
           /\ \E c \in InterruptedSave(o.w.performance_file) : performance_file' = c
    /\ UNCHANGED state_file
    /\ Killed("deactivate_persona")

\* A session whose deactivation was cut short is deactivated again by the
\* next invocation.  One kill is followed at a time: no further one while a
\* record is still cut short, nor once the history has MaxSessions entries.
HistoryRoom ==
    /\ state_file.kind /= "unparsable"
    /\ history_file.kind /= "unparsable"
    /\ performance_file.kind /= "unparsable"
    /\ \E h \in {_load_history(history_file)} : h.j = "array" /\ Len(h.v) < MaxSessions

NextCrash ==
    \/ Construct
    \/ Exit
    \/ \E p \in Personas :
          SessionsStarted < MaxSessions /\ ActivatePersona(p, None, None)
    \/ DeactivatePersona(None)
    \/ \E path \in ArtifactPaths : ArtifactRoom /\ AddArtifact(path)
    \/ \E path \in ArtifactPaths : ArtifactRoom /\ HistoryRoom /\ AddArtifactKilled(path)
    \/ HistoryRoom /\ DeactivateKilledInHistory
    \/ HistoryRoom /\ DeactivateKilledInPerformance

SpecCrash == Init /\ [][NextCrash]_vars

-----------------------------------------------------------------------------
(* What the record files hold, read off their JSON.                        *)

\* the stored History Entries, oldest first
History ==
    IF history_file.kind = "json" /\ history_file.doc.j = "array"
    THEN history_file.doc.v ELSE <<>>

EntryPersona(e) == e.v.persona_id.v
EntryArtifacts(e) == Len(e.v.artifacts.v)
EntryDuration(e) == fromisoformat(e.v.deactivated_at.v) - fromisoformat(e.v.activated_at.v)
EntriesOf(p) == {i \in 1..Len(History) : EntryPersona(History[i]) = p}

\* the context in the current-persona record (JNull when there is none)
StoredContext ==
    IF state_file.kind = "json" /\ state_file.doc.j = "object"
       /\ "current_persona" \in DOMAIN state_file.doc.v
    THEN state_file.doc.v.current_persona ELSE JNull

StoredPersona == IF StoredContext = JNull THEN None ELSE Some(StoredContext.v.persona_id.v)

\* the personas with a stored performance record, and a number field of one
StoredPersonas ==
    IF performance_file.kind = "json" /\ performance_file.doc.j = "object"
    THEN DOMAIN performance_file.doc.v ELSE {}

Stored(p, field) == IF p \in StoredPersonas THEN performance_file.doc.v[p].v[field].v ELSE 0

IsActive == ~IsNone(current_context)
ActivePersona == current_context[1].persona_id

RECURSIVE SumSet(_, _)
SumSet(F(_), S) ==
    IF S = {} THEN 0
    ELSE LET x == CHOOSE y \in S : TRUE IN F(x) + SumSet(F, S \ {x})

-----------------------------------------------------------------------------
(* Claims.                                                                 *)

\* the number of contexts, stored as current or in history, without deactivated_at
ActiveContexts ==
    (IF StoredContext /= JNull /\ StoredContext.v.deactivated_at = JNull THEN 1 ELSE 0)
    + Cardinality({i \in 1..Len(History) : History[i].v.deactivated_at = JNull})

C1_ActivateWhileActive(p, ph) ==
    (/\ IsActive
     /\ result'.op = "activate_persona"
     /\ ActivatePersona(p, ph, None)) =>
        /\ Len(History') = Len(History) + 1
        /\ SubSeq(History', 1, Len(History)) = History
        /\ EntryPersona(History'[Len(History')]) = ActivePersona
        /\ History'[Len(History')].v.deactivated_at /= JNull
        /\ fromisoformat(History'[Len(History')].v.deactivated_at.v) <= clock
        /\ current_context' = Some(PersonaContext(p, isoformat(clock), ph))
        /\ StoredContext' = asdict_context(current_context'[1])

\* C1: after any sequence of activate_persona / switch_persona /
\* deactivate_persona calls on a fresh project at most one context is active,
\* and every activate_persona call made while a persona P is active appends
\* exactly one History Entry, for P, closed no later than the new context starts,
\* and leaves the new persona's context as the current one.
C1_SingleActive ==
    /\ [](ActiveContexts <= 1)
    /\ [][\A p \in Personas, ph \in OptPhases : C1_ActivateWhileActive(p, ph)]_vars

\* activate_persona was called while business-analyst was active and made
\* solution-architect current
C1_Witness ==
    /\ result.op = "activate_persona"
    /\ result.was = Some("business-analyst")
    /\ Len(History) = 1
    /\ EntryPersona(History[1]) = "business-analyst"
    /\ IsActive
    /\ ActivePersona = "solution-architect"

\* the number of sessions of p that have been deactivated
Consumed(p) == started[p] - (IF StoredPersona = Some(p) THEN 1 ELSE 0)

\* C2: every session is consumed exactly once, also across re-instantiation
\* of the manager: each persona has one History Entry and one total_sessions
\* increment per deactivated session of it, and none for a session still active.
C2_ConsumedOnce ==
    \A p \in PersonaIds :
        /\ Cardinality(EntriesOf(p)) = Consumed(p)
        /\ Stored(p, "total_sessions") = Consumed(p)

\* a manager re-instantiated from disk holds an active session next to a
\* consumed one of the same persona
C2_Witness ==
    /\ constructed
    /\ result.op = "__init__"
    /\ IsActive
    /\ Len(History) = 1
    /\ started[ActivePersona] = 2
    /\ Stored(ActivePersona, "total_sessions") = 1

ArtifactsAt(i) == EntryArtifacts(History[i])

\* C3: after every completed operation the three records agree: for every
\* persona, total_sessions is the number of its History Entries and
\* artifacts_created the sum of their artifact counts, and the context in the
\* current-persona record is not in history.
C3_RecordsConsistent ==
    /\ \A p \in PersonaIds :
          /\ Stored(p, "total_sessions") = Cardinality(EntriesOf(p))
          /\ Stored(p, "artifacts_created") = SumSet(ArtifactsAt, EntriesOf(p))
    /\ StoredContext /= JNull =>
          \A i \in 1..Len(History) : History[i] /= StoredContext

\* two sessions of one persona left one artifact in all, a third is active
C3_Witness ==
    /\ Cardinality(EntriesOf("business-analyst")) = 2
    /\ Stored("business-analyst", "artifacts_created") = 1
    /\ StoredPersona = Some("business-analyst")
    /\ Len(StoredContext.v.artifacts.v) = 1

C4_SwitchStep(p, ph) ==
    (/\ result'.op = "switch_persona"
     /\ SwitchPersona(p, ph, None)) =>
        /\ current_context' = Some(PersonaContext(p, isoformat(clock), ph))
        /\ StoredContext' = asdict_context(current_context'[1])
        /\ ActiveContexts' = 1
        /\ IF IsActive
           THEN /\ Len(History') = Len(History) + 1
                /\ SubSeq(History', 1, Len(History)) = History
                /\ EntryPersona(History'[Len(History')]) = ActivePersona
                /\ \A q \in PersonaIds :
                      Stored(q, "total_sessions")' =
                          Stored(q, "total_sessions") + (IF q = ActivePersona THEN 1 ELSE 0)
                /\ result'.ret[1].previous_persona = Some(ActivePersona)
           ELSE /\ history_file' = history_file
                /\ performance_file' = performance_file
                /\ result'.ret[1].previous_persona = None

\* C4: switch_persona(new, phase) while A is active, new = A included, records
\* one deactivation of A (one History Entry, one total_sessions increment),
\* leaves new as the sole active context and returns previous_persona = A;
\* from IDLE it records nothing and returns previous_persona = null.
C4_SwitchOnce ==
    [][\A p \in Personas, ph \in OptPhases : C4_SwitchStep(p, ph)]_vars

\* switch_persona to the persona that was already active
C4_Witness ==
    /\ result.op = "switch_persona"
    /\ result.was = Some("business-analyst")
    /\ result.ret[1].previous_persona = Some("business-analyst")
    /\ IsActive
    /\ ActivePersona = "business-analyst"
    /\ Cardinality(EntriesOf("business-analyst")) = 1

C5_IdleStep ==
    (/\ ~IsActive
     /\ result'.op = "deactivate_persona"
     /\ DeactivatePersona(None)) =>
        /\ IsNone(result'.ret)
        /\ history_file' = history_file
        /\ performance_file' = performance_file
        /\ state_file' = state_file

\* C5: deactivate_persona called while IDLE returns None and leaves the
\* history, performance and current-persona records unchanged.
C5_IdleNoOp == [][C5_IdleStep]_vars

\* deactivate_persona returned None on a project with history, later than
\* the records were last written
C5_Witness ==
    /\ constructed
    /\ result.op = "deactivate_persona"
    /\ result.was = None
    /\ IsNone(result.ret)
    /\ Len(History) >= 1
    /\ state_file.doc.v.updated_at.v /= isoformat(clock)

DurationAt(i) == EntryDuration(History[i])

Successes100(p) == (Stored(p, "total_sessions") - Stored(p, "error_count")) * 100

\* C7 as stated: every stored record has
\* success_rate * total_sessions = (total_sessions - error_count) * 100,
\* whether the product is taken exactly or as the float the program would compute
C7_ExactIdentity ==
    \A p \in StoredPersonas :
        \/ ExactProductIs(Stored(p, "success_rate"), Stored(p, "total_sessions"),
                          Successes100(p))
        \/ FMulInt(Stored(p, "success_rate"), Stored(p, "total_sessions"))
               = FromInt(Successes100(p))

\* C7: every stored record has been through a deactivation (total_sessions >= 1)
\* and its success_rate is the float ((total_sessions - error_count) /
\* total_sessions) * 100 of its current counts, so success_rate * total_sessions
\* is (total_sessions - error_count) * 100 within 2 * total_sessions units in
\* the last place of success_rate; a record not yet stored starts at 100.
C7_RateWithinRounding ==
    /\ \A p \in StoredPersonas :
          LET S == Stored(p, "total_sessions")
              E == Stored(p, "error_count")
          IN  /\ S >= 1
              /\ E <= S
              /\ ProductWithin(Stored(p, "success_rate"), S, Successes100(p), 2 * S)
              /\ Stored(p, "success_rate") = FMulInt(FDivInt(S - E, S), 100)
    /\ \A p \in PersonaIds :
          /\ PersonaPerformance(p).total_sessions = 0
          /\ PersonaPerformance(p).success_rate = FromInt(100)

\* three sessions, one with an error note: the rate is 66.66666666666666
C7_Witness ==
    /\ Stored(RatePersona, "total_sessions") = 3
    /\ Stored(RatePersona, "error_count") = 1
    /\ ~ExactProductIs(Stored(RatePersona, "success_rate"), 3, 200)

\* the session of History Entry e has a note reporting an error, in lower,
\* upper or mixed case
EntryHasErrorNote(e) ==
    \E i \in 1..Len(e.v.notes.v), t \in 0..MaxTime, n \in {NoteError, NoteUpper} :
        e.v.notes.v[i].v = FormatNote(n, t)

EntryErrorNotes(e) ==
    {i \in 1..Len(e.v.notes.v) :
        \E t \in 0..MaxTime, n \in {NoteError, NoteUpper} : e.v.notes.v[i].v = FormatNote(n, t)}

C8_DeactivationStep ==
    Len(History') = Len(History) + 1 =>
        LET e == History'[Len(History')]
        IN  \A p \in PersonaIds :
                Stored(p, "error_count")' =
                    Stored(p, "error_count")
                    + (IF p = EntryPersona(e) /\ EntryHasErrorNote(e) THEN 1 ELSE 0)

\* C8: a deactivation adds exactly 1 to the error_count of the session's
\* persona if at least one note of the session contains "error" in any letter
\* case, however many do, and 0 otherwise; two sessions of one persona, one of
\* them with an error note, give error_count = 1 and success_rate = 50.
C8_ErrorCounted ==
    /\ [][C8_DeactivationStep]_vars
    /\ [](\A p \in StoredPersonas :
             Stored(p, "total_sessions") = 2 /\ Stored(p, "error_count") = 1
                 => Stored(p, "success_rate") = FromInt(50))

\* the second session had two error notes, one of them in upper case, and
\* counted once
C8_Witness ==
    /\ Len(History) = 2
    /\ Cardinality(EntryErrorNotes(History[2])) = 2
    /\ History[2].v.notes.v[2].v = FormatNote(NoteUpper, clock)
    /\ ~EntryHasErrorNote(History[1])
    /\ Stored(RatePersona, "error_count") = 1
    /\ Stored(RatePersona, "success_rate") = FromInt(50)

\* what a manager constructed now on the same project would hold
Reloaded == __init__(World, clock)

C9_ExitStep ==
    Exit => /\ Reloaded'.current_context = current_context
            /\ Reloaded'.history_file = history_file
            /\ Reloaded'.performance_file = performance_file

\* C9: after any completed operation a freshly constructed PersonaManager on
\* the same project loads a current context equal field for field to the one
\* the previous instance held, and the same history and performance records;
\* the performance records saved and loaded again are the records saved.
C9_RoundTrip ==
    /\ [](constructed =>
             /\ _load_state(state_file, None) = current_context
             /\ Reloaded.current_context = current_context
             /\ LET performance == _load_performance(performance_file)
                IN  /\ DOMAIN performance = StoredPersonas
                    /\ _load_performance(_save_performance(performance)) = performance
                    /\ _save_performance(performance) = performance_file)
    /\ [][C9_ExitStep]_vars

\* a new invocation loaded a context with a phase, an artifact and a note
C9_Witness ==
    /\ constructed
    /\ result.op = "__init__"
    /\ IsActive
    /\ current_context[1].phase = Some("plan")
    /\ Len(current_context[1].artifacts) = 1
    /\ Len(current_context[1].notes) = 1
    /\ Len(History) = 1

\* the file is not one its save method writes: unparsable, or JSON of
\* another shape
Corrupt(file, shape) ==
    \/ file.kind = "unparsable"
    \/ file.kind = "json" /\ file.doc.j /= shape

\* C10 as stated: a record that is absent or corrupt loads as its empty
\* default, and no operation on such a project raises
C10_NeverRaises ==
    /\ (~exists(state_file) \/ Corrupt(state_file, "object"))
           => _load_state(state_file, None) = None
    /\ (~exists(history_file) \/ Corrupt(history_file, "array"))
           => _load_history(history_file) = JArr(<<>>)
    /\ (~exists(performance_file) \/ Corrupt(performance_file, "object"))
           => _load_performance(performance_file) = EmptyDict
    /\ IsNone(result.exc)

\* deactivate_persona raised AttributeError: the history file held {}
C10_Raised ==
    /\ result.op = "deactivate_persona"
    /\ result.exc = Some("AttributeError")
    /\ history_file = Json(JObj(EmptyDict))

\* C11 as stated: no load observes a partially written record; each record
\* file holds a complete content, the previous or the new one
C11_AtomicSave ==
    /\ state_file.kind /= "unparsable"
    /\ history_file.kind /= "unparsable"
    /\ performance_file.kind /= "unparsable"

\* the invocation after a kill inside _save_state found persona_state.json
\* cut short and loaded no persona, though a session had been started and
\* never deactivated
C11_PartialObserved ==
    /\ constructed
    /\ result.op = "__init__"
    /\ state_file.kind = "unparsable"
    /\ ~IsActive
    /\ SessionsStarted = 1
    /\ Len(History) = 0

\* the marker file of the assistant the last call named, when
\* create_agent_context_file knows that assistant
TargetMarker == context_files[result.target[1]]
TargetKnown == ~IsNone(result.target) /\ result.target[1] \in context_paths

\* C12 as stated: after deactivate_persona with a notify target has
\* deactivated a persona, the marker file of that assistant is absent
C12_MarkerCleared ==
    (/\ result.op = "deactivate_persona"
     /\ ~IsNone(result.was)
     /\ IsNone(result.exc)
     /\ TargetKnown) => TargetMarker = Absent

\* deactivate_persona(ai_assistant = claude) deactivated business-analyst and
\* the marker of claude still names it as the active persona
C12_MarkerLeft ==
    /\ result.op = "deactivate_persona"
    /\ result.was = Some("business-analyst")
    /\ result.target = Some(KnownAssistant)
    /\ ~IsNone(result.ret)
    /\ StoredPersona = None
    /\ context_files[KnownAssistant] = MarkerContent("business-analyst", None)

\* C13: after activate_persona or switch_persona with a target that
\* create_agent_context_file knows, from IDLE or from ACTIVE, the marker of
\* that assistant exists and names the persona now active and its phase, not
\* the persona active before.
C13_MarkerNamesNew ==
    (/\ result.op \in {"activate_persona", "switch_persona"}
     /\ TargetKnown) =>
        /\ IsNone(result.exc)
        /\ StoredPersona /= None
        /\ TargetMarker.kind = "text"
        /\ TargetMarker.active_persona = StoredPersona[1]
        /\ TargetMarker.phase = (IF StoredContext.v.phase = JNull THEN "Not specified"
                                 ELSE StoredContext.v.phase.v)
        /\ TargetMarker.current_phase = (IF StoredContext.v.phase = JNull THEN "unspecified"
                                         ELSE StoredContext.v.phase.v)
        /\ TargetMarker.active_persona = result.ret[1].persona

\* switch_persona from business-analyst, active without a phase, to
\* solution-architect in phase plan
C13_Witness ==
    /\ result.op = "switch_persona"
    /\ result.was = Some("business-analyst")
    /\ result.target = Some(KnownAssistant)
    /\ context_files[KnownAssistant] = MarkerContent("solution-architect", Some("plan"))
    /\ Len(History) = 1
    /\ History[1].v.phase = JNull

\* the call the step makes, made without a notify target
WithoutTarget(p, a) ==
    IF result'.op = "activate_persona" THEN activate_persona(World, p, None, None, clock)
    ELSE switch_persona(World, p, None, None, clock)

C14_Step(p, a) ==
    (/\ result'.op \in {"activate_persona", "switch_persona"}
     /\ result'.target = a
     /\ ActivatePersona(p, None, a) \/ SwitchPersona(p, None, a)) =>
        /\ IsNone(result'.exc)
        /\ result'.ret = Some(WithoutTarget(p, a).ret)
        /\ state_file' = WithoutTarget(p, a).w.state_file
        /\ history_file' = WithoutTarget(p, a).w.history_file
        /\ performance_file' = WithoutTarget(p, a).w.performance_file

\* C14 as stated: when the notifier fails (the assistant is unknown, or the
\* marker cannot be written) the activation still returns its normal result
\* and leaves the three records as the same call without a notify target
\* would
C14_NotifierFailureIgnored ==
    [][\A p \in Personas, a \in OptAssistants \ {None} : C14_Step(p, a)]_vars

\* activate_persona raised the notifier's OSError after it had saved the new
\* context
C14_NotifierRaised ==
    /\ result.op = "activate_persona"
    /\ result.target = Some(KnownAssistant)
    /\ result.exc = Some("OSError")
    /\ StoredPersona = Some("business-analyst")
    /\ context_files[KnownAssistant] = Blocked

\* ---------------------------------------------------------------------
\* C15: mutators called while IDLE

IdleMutators == {"add_artifact", "add_note", "update_phase"}

C15_IdleMutatorStep ==
    (/\ ~IsActive
     /\ result'.op \in IdleMutators
     /\ \/ \E path \in ArtifactPaths : AddArtifact(path)
        \/ \E note \in NoteTexts : AddNote(note)
        \/ \E ph \in PhaseNames : UpdatePhase(ph)) =>
        /\ current_context' = None
        /\ state_file' = state_file
        /\ history_file' = history_file
        /\ performance_file' = performance_file

\* C15: add_artifact, add_note and update_phase called while IDLE leave the
\* in-memory context null and the current-persona, history and performance
\* records unchanged; no context is created.
C15_IdleMutatorsNoOp == [][C15_IdleMutatorStep]_vars

\* update_phase was called with no active persona on a project with
\* history, later than the state record was last written
C15_Witness ==
    /\ constructed
    /\ result.op = "update_phase"
    /\ result.was = None
    /\ ~IsActive
    /\ StoredContext = JNull
    /\ Len(History) >= 1
    /\ state_file.doc.v.updated_at.v /= isoformat(clock)

\* ---------------------------------------------------------------------
\* C16: how an operation that needs an active persona reports that there
\* is none

StateDependentOps == IdleMutators \cup {"deactivate_persona"}

\* C16 as stated: an operation called while IDLE does not raise and returns
\* a value different from the one it returns when it succeeds on an active
\* persona (None is what every one of them returns while IDLE)
C16_ExplicitSignal ==
    result.op \in StateDependentOps =>
        /\ IsNone(result.exc)
        /\ IsNone(result.was) => IsNone(result.ret)
        /\ ~IsNone(result.was) => ~IsNone(result.ret)

\* C16: no operation called while IDLE raises; deactivate_persona returns
\* None exactly when IDLE and a "deactivated" result when a persona was
\* active, while add_artifact, add_note and update_phase return None both
\* when IDLE and when they succeed.
C16_SilentNoOps ==
    result.op \in StateDependentOps =>
        /\ IsNone(result.exc)
        /\ result.op = "deactivate_persona" =>
               /\ IsNone(result.was) <=> IsNone(result.ret)
               /\ ~IsNone(result.ret) =>
                      /\ result.ret[1].status = "deactivated"
                      /\ result.ret[1].persona = result.was[1]
        /\ result.op \in IdleMutators => IsNone(result.ret)

\* add_note returned None with no active persona, after an add_note on an
\* active persona (its note is in history) had returned None as well
C16_Witness ==
    /\ result.op = "add_note"
    /\ IsNone(result.was)
    /\ IsNone(result.ret)
    /\ IsNone(result.exc)
    /\ \E i \in 1..Len(History) : Len(History[i].v.notes.v) = 1

-----------------------------------------------------------------------------
(* The command "persona switch <persona_id> [--phase P]": one process that *)
(* validates against .specify/config.json, detects the assistant from the  *)
(* agent folders, constructs a manager, switches and ends.                 *)

\* the keys of AGENT_CONFIG in their order
AGENT_CONFIG ==
    <<"copilot", "claude", "gemini", "cursor-agent", "qwen", "opencode", "codex",
      "windsurf", "kilocode", "auggie", "codebuddy", "roo", "q", "amp">>

\* the first agent whose folder exists: one of the given folders, or the
\* folder of a marker file
DetectAssistant(w, folders) ==
    LET hits == {i \in 1..Len(AGENT_CONFIG) :
                    \/ AGENT_CONFIG[i] \in folders
                    \/ exists(w.context_files[AGENT_CONFIG[i]])}
    IN  IF hits = {} THEN None
        ELSE Some(AGENT_CONFIG[CHOOSE i \in hits : \A j \in hits : i <= j])

\* config.get("personas", {}).get("enabled")
ConfigEnabled(config) ==
    LET personas == IF "personas" \in DOMAIN config.v THEN config.v.personas
                    ELSE JObj(EmptyDict)
    IN  IF "enabled" \in DOMAIN personas.v THEN personas.v.enabled ELSE JNull

\* persona switch without the "persona_id not in enabled_personas" check
persona_switch_WithoutMembershipCheck(w, config_file, persona_id, phase, folders, now) ==
    IF ~exists(config_file) THEN Raised(w, "Exit")
    ELSE IF config_file.kind = "unparsable" THEN Raised(w, "JSONDecodeError")
    ELSE IF ~Truthy(ConfigEnabled(config_file.doc)) THEN Raised(w, "Exit")
    ELSE switch_persona(__init__(w, now), persona_id, phase,
                        DetectAssistant(w, folders), now)

persona_switch(w, config_file, persona_id, phase, folders, now) ==
    IF ~exists(config_file) THEN Raised(w, "Exit")
    ELSE IF config_file.kind = "unparsable" THEN Raised(w, "JSONDecodeError")
    ELSE IF ~Truthy(ConfigEnabled(config_file.doc)) THEN Raised(w, "Exit")
    ELSE LET enabled_personas == ConfigEnabled(config_file.doc).v
         IN  IF \A i \in 1..Len(enabled_personas) : enabled_personas[i].v /= persona_id
             THEN Raised(w, "Exit")
             ELSE switch_persona(__init__(w, now), persona_id, phase,
                                 DetectAssistant(w, folders), now)

\* one run of the command; the process and its manager are gone afterwards
PersonaSwitch(config_file, persona_id, phase, folders) ==
    /\ ~constructed
    /\ \E o \in {persona_switch(World, config_file, persona_id, phase, folders, clock)} :
           /\ state_file' = o.w.state_file
           /\ history_file' = o.w.history_file
           /\ performance_file' = o.w.performance_file
           /\ context_files' = o.w.context_files
           /\ export_file' = o.w.export_file
           /\ UNCHANGED invocations
           /\ current_context' = None
           /\ result' = [op |-> "persona_switch", was |-> StoredPersona,
                         target |-> DetectAssistant(World, folders),
                         ret |-> Some(o.ret), exc |-> o.exc,
                         persona_id |-> persona_id, config_file |-> config_file]
           /\ started' = IF Created(o) THEN [started EXCEPT ![persona_id] = @ + 1]
                         ELSE started
    /\ UNCHANGED <<constructed, clock>>

PersonasConfig(ids) ==
    Json(JObj([ai_assistant |-> JStr("claude"),
               personas |-> JObj([enabled |-> JArr([i \in 1..Len(ids) |-> JStr(ids[i])])])]))

\* config.json of a project: missing, damaged, initialised without
\* personas, with none enabled, with one, with two
ConfigFiles ==
    {Absent, Unparsable, Json(JObj([ai_assistant |-> JStr("claude")])),
     PersonasConfig(<<>>), PersonasConfig(<<"business-analyst">>),
     PersonasConfig(<<"business-analyst", "solution-architect">>)}

AgentFolders == {{}, {"claude"}}

\* the command run again and again on one project, with the clock advancing
\* and config.json edited in between, and a script using the manager to
\* deactivate
NextCli ==
    \/ clock < MaxTime /\ Tick(clock + 1)
    \/ \E cf \in ConfigFiles, p \in PersonaIds, ph \in NotifyPhases, fs \in AgentFolders :
          SessionsStarted < MaxSessions /\ PersonaSwitch(cf, p, ph, fs)
    \/ Construct
    \/ Exit
    \/ DeactivatePersona(None)

SpecCli == Init /\ [][NextCli]_vars

\* ---------------------------------------------------------------------
\* C17: validation by the command "persona switch"

\* the enabled list of a config file (empty when there is none)
EnabledList(cf) ==
    IF cf.kind /= "json" THEN {}
    ELSE IF "personas" \notin DOMAIN cf.doc.v THEN {}
    ELSE {cf.doc.v.personas.v.enabled.v[i].v :
             i \in 1..Len(cf.doc.v.personas.v.enabled.v)}

C17_Step(cf, p) ==
    (/\ result'.op = "persona_switch"
     /\ result'.persona_id = p
     /\ result'.config_file = cf
     /\ \E ph \in NotifyPhases, fs \in AgentFolders : PersonaSwitch(cf, p, ph, fs)) =>
        /\ (cf = Absent \/ EnabledList(cf) = {} \/ p \notin EnabledList(cf)) =>
               /\ ~IsNone(result'.exc)
               /\ cf /= Unparsable => result'.exc = Some("Exit")
               /\ state_file' = state_file
               /\ history_file' = history_file
               /\ performance_file' = performance_file
               /\ StoredPersona' = StoredPersona
        /\ p \in EnabledList(cf) =>
               /\ IsNone(result'.exc)
               /\ StoredPersona' = Some(p)
               /\ result'.ret[1].previous_persona = StoredPersona
        /\ state_file' /= state_file => p \in EnabledList(cf)

\* C17: "persona switch" validates before it switches: with config.json
\* missing, no persona enabled or persona_id not in the enabled list it
\* exits with an error and leaves the three records as they were (an active
\* persona stays active); a persona activated by the command is in the
\* enabled list of the config it was run with.
C17_ValidatedSwitch ==
    [][\A cf \in ConfigFiles, p \in PersonaIds : C17_Step(cf, p)]_vars

\* the command was refused for a persona that is not enabled while another
\* persona was active, and that persona is still the stored current one
C17_Witness ==
    /\ result.op = "persona_switch"
    /\ result.persona_id = "tech-lead"
    /\ result.config_file = PersonasConfig(<<"business-analyst", "solution-architect">>)
    /\ result.exc = Some("Exit")
    /\ result.was = Some("business-analyst")
    /\ StoredPersona = Some("business-analyst")
    /\ History = <<>>

-----------------------------------------------------------------------------
(* Sessions measured against a wall clock that can jump: ten minutes       *)
(* forward, or back (the system clock is adjusted between two calls).      *)

ClockReadings == {0, 1, 600, 601}

NextDuration ==
    \/ Construct
    \/ Exit
    \/ \E t \in ClockReadings : t /= clock /\ Tick(t)
    \/ \E p \in Personas, ph \in {None, Some("specify")} :
          SessionsStarted < MaxSessions /\ ActivatePersona(p, ph, None)
    \/ \E p \in Personas, ph \in {None, Some("specify")} :
          SessionsStarted < MaxSessions /\ SwitchPersona(p, ph, None)
    \/ DeactivatePersona(None)
    \/ \E path \in ArtifactPaths : ArtifactRoom /\ AddArtifact(path)

SpecDuration == Init /\ [][NextDuration]_vars

\* ---------------------------------------------------------------------
\* C18: the duration of a session

C18_DeactivationStep ==
    Len(History') = Len(History) + 1 =>
        LET e == History'[Len(History')]
            start == fromisoformat(StoredContext.v.activated_at.v)
        IN  /\ EntryPersona(e) = StoredContext.v.persona_id.v
            /\ e.v.activated_at.v = StoredContext.v.activated_at.v
            /\ e.v.deactivated_at.v = isoformat(clock)
            /\ \A p \in PersonaIds :
                   Stored(p, "total_duration_seconds")' =
                       Stored(p, "total_duration_seconds")
                       + (IF p = EntryPersona(e) THEN clock - start ELSE 0)
            /\ result'.op = "deactivate_persona" =>
                   /\ result'.ret[1].duration_seconds = clock - start
                   /\ clock >= start => result'.ret[1].duration_seconds >= 0
                   /\ clock = start + 600 => result'.ret[1].duration_seconds = 600

\* C18: every deactivation records a session whose duration is the clock
\* reading at deactivation minus the stored activated_at, in the same or in
\* a later invocation; it is not negative when the clock has not gone back,
\* and 600 for a session deactivated 600 seconds after its activation.
C18_Duration == [][C18_DeactivationStep]_vars

\* the session of the example: activated at 0 in phase specify, one
\* artifact, deactivated at 600
C18_Witness ==
    /\ result.op = "deactivate_persona"
    /\ result.was = Some("business-analyst")
    /\ result.ret[1].duration_seconds = 600
    /\ Len(History) = 1
    /\ History[1].v.activated_at.v = isoformat(0)
    /\ Stored("business-analyst", "total_sessions") = 1
    /\ Stored("business-analyst", "total_duration_seconds") = 600
    /\ Stored("business-analyst", "artifacts_created") = 1
    /\ Stored("business-analyst", "phases_completed") = [specify |-> JNum(1)]
    /\ Stored("business-analyst", "success_rate") = FromInt(100)

\* a session closed at a clock reading earlier than its activated_at
C18_ClockWentBack ==
    /\ result.op = "deactivate_persona"
    /\ ~IsNone(result.ret)
    /\ result.ret[1].duration_seconds < 0

-----------------------------------------------------------------------------
(* The lifecycle with the read operations in between: history, summary,    *)
(* report and export.                                                      *)

HistoryLimits == {1, 10}

NextRead ==
    \/ Construct
    \/ Exit
    \/ clock < MaxTime /\ Tick(clock + 1)
    \/ \E p \in Personas :
          SessionsStarted < MaxSessions /\ ActivatePersona(p, None, None)
    \/ \E p \in Personas :
          SessionsStarted < MaxSessions /\ SwitchPersona(p, None, None)
    \/ DeactivatePersona(None)
    \/ \E limit \in HistoryLimits : GetSessionHistory(limit)
    \/ GetContextSummary
    \/ \E p \in {None, Some("business-analyst")} : GetPerformanceReport(p)
    \/ ExportMetrics(None)

SpecRead == Init /\ [][NextRead]_vars

\* s is an initial part of t
IsPrefix(s, t) == Len(s) <= Len(t) /\ SubSeq(t, 1, Len(s)) = s

\* ---------------------------------------------------------------------
\* C19: the history is an append-only log

C19_Step ==
    /\ IsPrefix(History, History')
    /\ Len(History') <= Len(History) + 1
    /\ (IsActive /\ result'.op = "deactivate_persona" /\ DeactivatePersona(None)) =>
           /\ Len(History') = Len(History) + 1
           /\ EntryPersona(History'[Len(History')]) = ActivePersona
    /\ (\/ /\ result'.op = "get_session_history"
            /\ \E limit \in HistoryLimits : GetSessionHistory(limit)
         \/ /\ result'.op = "get_context_summary"
            /\ GetContextSummary
         \/ /\ result'.op = "get_performance_report"
            /\ \E p \in {None, Some("business-analyst")} : GetPerformanceReport(p)
         \/ /\ result'.op = "export_metrics"
            /\ ExportMetrics(None)) =>
           /\ IsNone(result'.exc)
           /\ history_file' = history_file

\* C19: every operation leaves the stored History Entries as a prefix of
\* the new history (same entries, same order, same field values), a
\* deactivation appends exactly one entry at the end, and the read
\* operations get_session_history, get_context_summary,
\* get_performance_report and export_metrics leave the history file as it is.
C19_AppendOnly == [][C19_Step]_vars

\* get_session_history returned the two sessions newest first while the
\* stored history still has them oldest first
C19_Witness ==
    /\ result.op = "get_session_history"
    /\ Len(History) = 2
    /\ fromisoformat(History[1].v.activated_at.v) < fromisoformat(History[2].v.activated_at.v)
    /\ result.ret[1] = <<History[2], History[1]>>
    /\ export_file /= Absent

-----------------------------------------------------------------------------
(* One persona whose session collects several artifacts and notes.         *)

MaxMutations == 2
MaxMutateSessions == 1
MaxMutateTime == 1
MutatePaths == {"docs/ba/requirements.md", "docs/ba/user-stories.md"}
MutatePersona == "business-analyst"

ArtifactRoomFor(n) ==
    IF IsNone(current_context) THEN TRUE ELSE Len(current_context[1].artifacts) < n

NextMutate ==
    \/ Construct
    \/ Exit
    \/ clock < MaxMutateTime /\ Tick(clock + 1)
    \/ SessionsStarted < MaxMutateSessions /\ ActivatePersona(MutatePersona, None, None)
    \/ DeactivatePersona(None)
    \/ \E path \in MutatePaths : ArtifactRoomFor(MaxMutations) /\ AddArtifact(path)
    \/ \E note \in NoteTexts : NoteRoom(MaxMutations) /\ AddNote(note)
    \/ \E ph \in PhaseNames : UpdatePhase(ph)

SpecMutate == Init /\ [][NextMutate]_vars

\* ---------------------------------------------------------------------
\* C20: the active context is persisted on every mutation

\* the current-persona record holds the context the instance holds
PersistedIsCurrent ==
    constructed =>
        StoredContext = IF IsActive THEN asdict_context(current_context[1]) ELSE JNull

\* the stored session goes on: no activation and no deactivation in the step
SameSession ==
    /\ StoredContext /= JNull
    /\ StoredContext' /= JNull
    /\ started' = started
    /\ history_file' = history_file

C20_Step ==
    /\ PersistedIsCurrent'
    /\ SameSession =>
           /\ IsPrefix(StoredContext.v.artifacts.v, StoredContext'.v.artifacts.v)
           /\ IsPrefix(StoredContext.v.notes.v, StoredContext'.v.notes.v)
           /\ StoredContext'.v.persona_id = StoredContext.v.persona_id
           /\ StoredContext'.v.activated_at = StoredContext.v.activated_at
    /\ (/\ IsActive
        /\ result'.op = "add_artifact"
        /\ \E path \in MutatePaths : AddArtifact(path)) =>
           \E path \in MutatePaths :
               StoredContext'.v.artifacts.v =
                   Append(StoredContext.v.artifacts.v, JStr(path))
    /\ (/\ IsActive
        /\ result'.op = "add_note"
        /\ \E note \in NoteTexts : AddNote(note)) =>
           \E note \in NoteTexts :
               StoredContext'.v.notes.v =
                   Append(StoredContext.v.notes.v, JStr(FormatNote(note, clock)))

\* C20: after every completed activate_persona, add_artifact, add_note,
\* update_phase and deactivate_persona the persisted current-persona record
\* equals the in-memory current context; while a session goes on its
\* artifacts and notes only grow by appending at the end.
C20_PersistedOnMutation == [][C20_Step]_vars

\* an active session with two artifacts and two notes in the order they
\* were added, its phase updated, stored as the instance holds it
C20_Witness ==
    /\ constructed
    /\ IsActive
    /\ current_context[1].artifacts = <<"docs/ba/user-stories.md", "docs/ba/requirements.md">>
    /\ Len(current_context[1].notes) = 2
    /\ current_context[1].notes[1] = FormatNote(NoteError, 0)
    /\ current_context[1].notes[2] = FormatNote(NoteOk, 1)
    /\ result.op = "update_phase"
    /\ StoredContext = asdict_context(current_context[1])
    /\ StoredContext.v.phase = JStr("plan")

-----------------------------------------------------------------------------
(* One session with more notes than the summary shows, asked for its       *)
(* summary at different moments.                                           *)

MaxSummaryNotes == 6
SummaryPersona == "business-analyst"

NextSummary ==
    \/ Construct
    \/ Exit
    \/ clock < MaxTime /\ Tick(clock + 1)
    \/ \E ph \in OptPhases :
          SessionsStarted < MaxMutateSessions /\ ActivatePersona(SummaryPersona, ph, None)
    \/ DeactivatePersona(None)
    \/ \E path \in ArtifactPaths : ArtifactRoom /\ AddArtifact(path)
    \/ NoteRoom(MaxSummaryNotes) /\ AddNote(NoteOk)
    \/ GetContextSummary

SpecSummary == Init /\ [][NextSummary]_vars

\* ---------------------------------------------------------------------
\* C21: get_context_summary

C21_SummaryStep ==
    (result'.op = "get_context_summary" /\ GetContextSummary) =>
        LET summary == result'.ret[1]
        IN  /\ IsNone(result'.exc)
            /\ state_file' = state_file
            /\ history_file' = history_file
            /\ performance_file' = performance_file
            /\ current_context' = current_context
            /\ summary.status = "no_active_persona" <=> ~IsActive
            /\ IsActive =>
                   LET c == current_context[1]
                       n == Len(c.notes)
                       shown == IF n < 5 THEN n ELSE 5
                   IN  /\ summary.status = "active"
                       /\ summary.persona = c.persona_id
                       /\ summary.phase = c.phase
                       /\ summary.artifacts = c.artifacts
                       /\ Len(summary.notes) = shown
                       /\ \A i \in 1..shown : summary.notes[i] = c.notes[n - shown + i]
                       /\ summary.duration_seconds = clock - fromisoformat(c.activated_at)

\* C21: get_context_summary changes none of the three records, returns
\* status "no_active_persona" exactly when IDLE, and otherwise the active
\* persona_id, its phase, the full artifact list, the last min(5, n) of
\* the n notes in their order and the time elapsed at the moment of the
\* call.
C21_SummaryProjection == [][C21_SummaryStep]_vars

\* the summary of a session with six notes, asked two seconds after the
\* activation: five notes shown, the first one left out
C21_Witness ==
    /\ result.op = "get_context_summary"
    /\ IsActive
    /\ Len(current_context[1].notes) = 6
    /\ result.ret[1].status = "active"
    /\ Len(result.ret[1].notes) = 5
    /\ result.ret[1].notes[1] = FormatNote(NoteOk, 1)
    /\ current_context[1].notes[1] = FormatNote(NoteOk, 0)
    /\ result.ret[1].duration_seconds = 2

\* ---------------------------------------------------------------------
\* C22: get_performance_report

\* the formatted record is the stored record of p
FormattedIs(record, p) ==
    /\ record.persona_id = p
    /\ record.total_sessions = Stored(p, "total_sessions")
    /\ record.artifacts_created = Stored(p, "artifacts_created")
    /\ record.error_count = Stored(p, "error_count")
    /\ record.total_duration_minutes.hundredths * 6 - 3
           <= Stored(p, "total_duration_seconds") * 10
    /\ Stored(p, "total_duration_seconds") * 10
           < record.total_duration_minutes.hundredths * 6 + 3

C22_ReportStep(p) ==
    (result'.op = "get_performance_report" /\ GetPerformanceReport(p)) =>
        LET report == result'.ret[1]
        IN  /\ IsNone(result'.exc)
            /\ performance_file' = performance_file
            /\ state_file' = state_file
            /\ history_file' = history_file
            /\ IF IsNone(p)
               THEN /\ report.kind = "all"
                    /\ DOMAIN report.report = StoredPersonas
                    /\ \A q \in StoredPersonas : FormattedIs(report.report[q], q)
               ELSE IF p[1] \in StoredPersonas
               THEN report.kind = "record" /\ FormattedIs(report.record, p[1])
               ELSE report.kind = "error" /\ report.persona = p[1]

\* C22: get_performance_report(persona_id) returns the formatted record of
\* that persona if one is stored and the "no data" result otherwise; without
\* persona_id it returns one formatted entry per stored persona; the stored
\* performance record is left as it is.
C22_Report ==
    [][\A p \in {None, Some("business-analyst")} : C22_ReportStep(p)]_vars

\* "no data" was returned for business-analyst while solution-architect
\* has a record of two seconds
C22_Witness ==
    /\ result.op = "get_performance_report"
    /\ result.ret[1].kind = "error"
    /\ result.ret[1].persona = "business-analyst"
    /\ StoredPersonas = {"solution-architect"}
    /\ Stored("solution-architect", "total_duration_seconds") = 2

\* ---------------------------------------------------------------------
\* C23: deactivated_at, activated_at and persona_id over a session's life

\* every History Entry is closed, the current context is open
ClosedExactlyInHistory ==
    /\ \A i \in 1..Len(History) : History[i].v.deactivated_at /= JNull
    /\ StoredContext /= JNull => StoredContext.v.deactivated_at = JNull
    /\ IsActive => IsNone(current_context[1].deactivated_at)

C23_Step ==
    /\ ClosedExactlyInHistory'
    /\ IsPrefix(History, History')
    /\ (StoredContext /= JNull /\ StoredContext' /= JNull /\ started' = started) =>
           /\ StoredContext'.v.persona_id = StoredContext.v.persona_id
           /\ StoredContext'.v.activated_at = StoredContext.v.activated_at
    /\ Len(History') = Len(History) + 1 =>
           /\ StoredContext /= JNull
           /\ History'[Len(History')].v.persona_id = StoredContext.v.persona_id
           /\ History'[Len(History')].v.activated_at = StoredContext.v.activated_at
           /\ History'[Len(History')].v.deactivated_at = JStr(isoformat(clock))

\* C23: every History Entry has deactivated_at set and never changes it,
\* the current context in the current-persona record and in memory never
\* has it set, and a session keeps its persona_id and activated_at from its
\* activation to its History Entry.
C23_SetOnce == [][C23_Step]_vars

\* one closed session in history and a second one open, its phase updated
\* after its activation
C23_Witness ==
    /\ Len(History) = 1
    /\ History[1].v.deactivated_at = JStr(isoformat(1))
    /\ History[1].v.activated_at = JStr(isoformat(0))
    /\ IsActive
    /\ result.op = "update_phase"
    /\ StoredContext.v.activated_at = JStr(isoformat(1))
    /\ StoredContext.v.deactivated_at = JNull
    /\ clock = 2

-----------------------------------------------------------------------------
(* Two invocations of "persona switch" on one project at the same time.    *)
(* Each is a process of its own with its own PersonaManager; the steps are *)
(* the reads and writes of the record files, in the order of               *)
(* switch_persona, deactivate_persona, _update_performance and             *)
(* activate_persona.  Nothing locks the files.                             *)

\* the list a process appends to and saves is the one it loaded; the file is
\* not read again in between
HeldHistory_Reread(loaded, file) == _load_history(file)
HeldHistory(loaded, file) == loaded

Goto(i, pc) == [invocations EXCEPT ![i].pc = pc]

\* manager = PersonaManager(project_path) on an initialised project
RaceConstruct(i, new_persona_id) ==
    /\ ~constructed
    /\ invocations[i].pc = "not_started"
    /\ exists(state_file) /\ exists(history_file) /\ exists(performance_file)
    /\ invocations' =
           [invocations EXCEPT
               ![i].pc = "switch",
               ![i].new_persona_id = new_persona_id,
               ![i].current_context = _load_state(state_file, None)]
    /\ UNCHANGED <<state_file, history_file, performance_file, context_files,
                   export_file, constructed, current_context, clock, result, started>>

\* switch_persona up to history = self._load_history()
RaceLoadHistory(i) ==
    /\ invocations[i].pc = "switch"
    /\ invocations' =
           IF IsNone(invocations[i].current_context) THEN Goto(i, "activate")
           ELSE [invocations EXCEPT
                    ![i].pc = "save_history",
                    ![i].current_context =
                        Some([@[1] EXCEPT !.deactivated_at = Some(isoformat(clock))]),
                    ![i].history = _load_history(history_file)]
    /\ UNCHANGED <<state_file, history_file, performance_file, context_files,
                   export_file, constructed, current_context, clock, result, started>>

\* history.append(asdict(self.current_context)); self._save_history(history)
RaceSaveHistory(i) ==
    /\ invocations[i].pc = "save_history"
    /\ \E entry \in {asdict_context(invocations[i].current_context[1])} :
           /\ history_file' =
                  _save_history(JArr(Append(
                      HeldHistory(invocations[i].history, history_file).v, entry)))
           /\ invocations' = [invocations EXCEPT ![i].pc = "load_performance",
                                                 ![i].appended = entry]
    /\ UNCHANGED <<state_file, performance_file, context_files,
                   export_file, constructed, current_context, clock, result, started>>

\* performance = self._load_performance()
RaceLoadPerformance(i) ==
    /\ invocations[i].pc = "load_performance"
    /\ invocations' = [invocations EXCEPT
                          ![i].pc = "save_performance",
                          ![i].performance = _load_performance(performance_file)]
    /\ UNCHANGED <<state_file, history_file, performance_file, context_files,
                   export_file, constructed, current_context, clock, result, started>>

\* the fold and self._save_performance(performance)
RaceSavePerformance(i) ==
    /\ invocations[i].pc = "save_performance"
    /\ performance_file' =
           _save_performance(UpdatedPerformance(
               invocations[i].performance, invocations[i].current_context[1],
               SessionDuration(invocations[i].current_context[1])))
    /\ invocations' = Goto(i, "clear")
    /\ UNCHANGED <<state_file, history_file, context_files,
                   export_file, constructed, current_context, clock, result, started>>

\* self.current_context = None; self._save_state()
RaceClear(i) ==
    /\ invocations[i].pc = "clear"
    /\ state_file' = _save_state(None, clock)
    /\ invocations' = [invocations EXCEPT ![i].pc = "activate",
                                          ![i].current_context = None]
    /\ UNCHANGED <<history_file, performance_file, context_files,
                   export_file, constructed, current_context, clock, result, started>>

\* activate_persona: the new context and self._save_state(); the process ends
RaceActivate(i) ==
    /\ invocations[i].pc = "activate"
    /\ \E context \in {PersonaContext(invocations[i].new_persona_id, isoformat(clock), None)} :
           /\ state_file' = _save_state(Some(context), clock)
           /\ invocations' = [invocations EXCEPT ![i].pc = "done",
                                                 ![i].current_context = Some(context)]
    /\ started' = [started EXCEPT ![invocations[i].new_persona_id] = @ + 1]
    /\ UNCHANGED <<history_file, performance_file, context_files,
                   export_file, constructed, current_context, clock, result>>

RacePersonas == [i \in Invocations |-> IF i = 1 THEN "solution-architect" ELSE "tech-lead"]

\* A first session is opened by an ordinary invocation; then the two
\* processes run, each once, their steps in any order.
NextRace ==
    \/ Construct
    \/ Exit
    \/ clock < MaxTime /\ Tick(clock + 1)
    \/ \E ph \in OptPhases :
          SessionsStarted < MaxMutateSessions /\ ActivatePersona("business-analyst", ph, None)
    \/ \E i \in Invocations : RaceConstruct(i, RacePersonas[i])
    \/ \E i \in Invocations : RaceLoadHistory(i)
    \/ \E i \in Invocations : RaceSaveHistory(i)
    \/ \E i \in Invocations : RaceLoadPerformance(i)
    \/ \E i \in Invocations : RaceSavePerformance(i)
    \/ \E i \in Invocations : RaceClear(i)
    \/ \E i \in Invocations : RaceActivate(i)

SpecRace == Init /\ [][NextRace]_vars

\* ---------------------------------------------------------------------
\* C24: concurrent invocations race, the last writer wins

C24_SaveStep(i) ==
    (invocations[i].pc = "save_history" /\ RaceSaveHistory(i)) =>
        /\ Len(History') = Len(invocations[i].history.v) + 1
        /\ SubSeq(History', 1, Len(History') - 1) = invocations[i].history.v
        /\ History'[Len(History')] = invocations'[i].appended
        /\ Len(History) > Len(invocations[i].history.v) =>
               Len(History') <= Len(History)

\* C24: the invocations are not coordinated.  Whatever the other one has
\* written since, a process saves the history it loaded plus its own
\* entry, so what the other one appended in between is overwritten and the
\* log is no longer after this append than before it; the interleaving in
\* which an appended entry is missing at the end, and the session is
\* counted twice with one entry in history, is reachable (C24_LostUpdate).
C24_LastWriterWins == [][\A i \in Invocations : C24_SaveStep(i)]_vars

\* both invocations have finished: the entry the first one appended is not
\* in history, and the session, once in history, is counted twice
C24_LostUpdate ==
    /\ \A i \in Invocations : invocations[i].pc = "done"
    /\ invocations[1].appended /= JNull
    /\ \A k \in 1..Len(History) : History[k] /= invocations[1].appended
    /\ Cardinality(EntriesOf("business-analyst")) = 1
    /\ Stored("business-analyst", "total_sessions") = 2

\* ---------------------------------------------------------------------
\* C25: phases_completed

\* phases_completed[ph] of persona p, 0 when there is no such entry
PhaseCount(p, ph) ==
    IF p \in StoredPersonas
    THEN IF ph \in DOMAIN performance_file.doc.v[p].v.phases_completed.v
         THEN performance_file.doc.v[p].v.phases_completed.v[ph].v ELSE 0
    ELSE 0

C25_Step ==
    /\ Len(History') = Len(History) + 1 =>
           LET e == History'[Len(History')]
           IN  /\ e.v.phase = StoredContext.v.phase
               /\ \A p \in PersonaIds, ph \in PhaseNames :
                      PhaseCount(p, ph)' =
                          PhaseCount(p, ph)
                          + (IF p = EntryPersona(e) /\ e.v.phase = JStr(ph) THEN 1 ELSE 0)
    /\ Len(History') = Len(History) =>
           \A p \in PersonaIds, ph \in PhaseNames : PhaseCount(p, ph)' = PhaseCount(p, ph)
    /\ \A p \in PersonaIds :
           /\ p \in StoredPersonas' =>
                  DOMAIN performance_file'.doc.v[p].v.phases_completed.v \subseteq PhaseNames
           /\ SumSet(LAMBDA ph : PhaseCount(p, ph)', PhaseNames) <= Stored(p, "total_sessions")'

\* C25: a deactivation adds exactly 1 to phases_completed[phase] of the
\* session's persona when the session has a phase, the one it holds at that
\* moment (after update_phase, the new one), and changes no other count;
\* without a phase, and on every other operation, the counts stay; their
\* sum never exceeds total_sessions.
C25_PhaseCounted == [][C25_Step]_vars

\* two sessions of business-analyst closed in phase plan and none in
\* specify
C25_Witness ==
    /\ PhaseCount("business-analyst", "plan") = 2
    /\ PhaseCount("business-analyst", "specify") = 0
    /\ Stored("business-analyst", "total_sessions") = 2
    /\ result.op = "deactivate_persona"

\* ---------------------------------------------------------------------
\* C26: which performance records a step changes

\* the stored record of persona q is the same before and after the step
RecordKept(q) ==
    /\ q \in StoredPersonas' <=> q \in StoredPersonas
    /\ q \in StoredPersonas => performance_file'.doc.v[q] = performance_file.doc.v[q]

C26_Step ==
    /\ Len(History') = Len(History) + 1 =>
           LET e == History'[Len(History')]
           IN  \A q \in PersonaIds :
                   IF q = EntryPersona(e)
                   THEN /\ q \in StoredPersonas'
                        /\ Stored(q, "total_sessions")' = Stored(q, "total_sessions") + 1
                        /\ q = StoredContext.v.persona_id.v
                   ELSE RecordKept(q)
    /\ Len(History') = Len(History) => \A q \in PersonaIds : RecordKept(q)

\* C26: a deactivation (explicit, or implicit in activate and switch)
\* creates the performance record of the session's persona when there is
\* none and changes that record only; the records of all other personas,
\* and on every other operation all records, stay as they are.
C26_OnlyOwnRecord == [][C26_Step]_vars

\* solution-architect was deactivated for the first time while
\* business-analyst had a record
C26_Witness ==
    /\ result.op = "deactivate_persona"
    /\ result.was = Some("solution-architect")
    /\ StoredPersonas = {"business-analyst", "solution-architect"}
    /\ Stored("business-analyst", "total_sessions") = 1
    /\ Stored("solution-architect", "total_sessions") = 1
    /\ EntryPersona(History[1]) = "business-analyst"

\* ---------------------------------------------------------------------
\* C27: a deactivation cut short between its writes

\* C27: when deactivate_persona is killed between its three writes (history
\* saved, performance saved, state cleared), the session is not recorded
\* again by a later invocation: every session started is at most once in
\* the history and counted at most once in total_sessions.
C27_RecordedOnce ==
    \A p \in PersonaIds :
        /\ Cardinality(EntriesOf(p)) <= started[p]
        /\ Stored(p, "total_sessions") <= started[p]

\* the one session of business-analyst ever started is twice in the history
\* and counted twice, after the next invocation deactivated it again
C27_RecordedTwice ==
    /\ result.op = "deactivate_persona"
    /\ IsNone(result.exc)
    /\ started["business-analyst"] = 1
    /\ Len(History) = 2
    /\ History[1] = History[2]
    /\ EntryPersona(History[1]) = "business-analyst"
    /\ Stored("business-analyst", "total_sessions") = 2
    /\ StoredContext = JNull

\* ---------------------------------------------------------------------
\* C28: activate_persona and switch_persona

\* called with the same arguments in the current state, the two leave the
\* same records, markers and context, raise the same, and return the same
\* but for previous_persona
SameEffect(p, ph, a) ==
    \E ac \in {activate_persona(World, p, ph, a, clock)} :
    \E sw \in {switch_persona(World, p, ph, a, clock)} :
        /\ sw.w = ac.w
        /\ sw.exc = ac.exc
        /\ IsNone(sw.exc) =>
               sw.ret = [status |-> ac.ret.status,
                         persona |-> ac.ret.persona,
                         phase |-> ac.ret.phase,
                         activated_at |-> ac.ret.activated_at,
                         previous_persona |-> get_current_persona(World)]

C28_Step ==
    \A p \in Personas, ph \in NotifyPhases, a \in OptAssistants :
        /\ (result'.op = "switch_persona" /\ SwitchPersona(p, ph, a)) => SameEffect(p, ph, a)
        /\ (result'.op = "activate_persona" /\ ActivatePersona(p, ph, a)) => SameEffect(p, ph, a)

\* C28: in any state activate_persona(p, phase) and switch_persona(p, phase)
\* have the same effect on the three records and on the context in memory;
\* what they return differs in switch's previous_persona only.
C28_SameEffect == [][C28_Step]_vars

\* a switch to solution-architect in phase plan closed the session of
\* business-analyst and opened the new one
C28_Witness ==
    /\ result.op = "switch_persona"
    /\ IsNone(result.exc)
    /\ result.was = Some("business-analyst")
    /\ result.ret[1].previous_persona = Some("business-analyst")
    /\ result.ret[1].phase = Some("plan")
    /\ Len(History) = 1
    /\ EntryPersona(History[1]) = "business-analyst"
    /\ IsActive
    /\ ActivePersona = "solution-architect"
    /\ current_context[1].phase = Some("plan")

\* ---------------------------------------------------------------------
\* C29: the marker and the phase of the active persona

\* Every activation, switch and deactivation names the assistant whose
\* marker create_agent_context_file knows; the phase is changed in between.
NextMarker ==
    \/ Construct
    \/ Exit
    \/ \E p \in Personas, ph \in OptPhases :
          SessionsStarted < MaxSessions /\ ActivatePersona(p, ph, Some(KnownAssistant))
    \/ \E p \in Personas, ph \in OptPhases :
          SessionsStarted < MaxSessions /\ SwitchPersona(p, ph, Some(KnownAssistant))
    \/ DeactivatePersona(Some(KnownAssistant))
    \/ \E ph \in PhaseNames : UpdatePhase(ph)

SpecMarker == Init /\ [][NextMarker]_vars

\* C29: while a persona activated with a known assistant is active, the
\* marker of that assistant shows the phase the active context is in, also
\* after update_phase has changed the phase.
C29_MarkerInStep ==
    IsActive =>
        /\ context_files[KnownAssistant].kind = "text"
        /\ context_files[KnownAssistant].active_persona = ActivePersona
        /\ context_files[KnownAssistant].current_phase =
               (IF IsNone(current_context[1].phase) THEN "unspecified"
                ELSE current_context[1].phase[1])

\* business-analyst was activated in phase specify with the marker of
\* claude written, update_phase moved it to plan, and the marker still
\* shows specify
C29_MarkerBehind ==
    /\ result.op = "update_phase"
    /\ IsActive
    /\ ActivePersona = "business-analyst"
    /\ current_context[1].phase = Some("plan")
    /\ StoredContext.v.phase.v = "plan"
    /\ context_files[KnownAssistant] = MarkerContent("business-analyst", Some("specify"))

\* ---------------------------------------------------------------------
\* C30: the ranges of a stored performance record

\* a <= b for naturals held as limbs of the same length
RECURSIVE LimbsLe(_, _)
LimbsLe(a, b) ==
    IF a = <<>> THEN TRUE
    ELSE IF a[Len(a)] /= b[Len(b)] THEN a[Len(a)] < b[Len(b)]
    ELSE LimbsLe(SubSeq(a, 1, Len(a) - 1), SubSeq(b, 1, Len(b) - 1))

\* f <= g for floats: the mantissas of non-zero floats have Prec bits, so
\* the exponents decide unless they are equal
FloatLe(f, g) ==
    IF f.m = <<>> THEN TRUE
    ELSE IF g.m = <<>> THEN FALSE
    ELSE IF f.e /= g.e THEN f.e < g.e
    ELSE LimbsLe(f.m, g.m)

\* C30: every stored performance record has 0 <= error_count <=
\* total_sessions, hence 0 <= success_rate <= 100, and a persona has a
\* record only when total_sessions >= 1.
C30_RecordRanges ==
    \A p \in PersonaIds :
        p \in StoredPersonas =>
            /\ Stored(p, "total_sessions") >= 1
            /\ Stored(p, "error_count") >= 0
            /\ Stored(p, "error_count") <= Stored(p, "total_sessions")
            /\ FloatLe(FromInt(0), Stored(p, "success_rate"))
            /\ FloatLe(Stored(p, "success_rate"), FromInt(100))

\* the lower end is met: after MaxRateSessions sessions with an error note
\* each, error_count equals total_sessions and the rate is 0.0
C30_Witness ==
    /\ RatePersona \in StoredPersonas
    /\ Stored(RatePersona, "total_sessions") = MaxRateSessions
    /\ Stored(RatePersona, "error_count") = MaxRateSessions
    /\ Stored(RatePersona, "success_rate") = FromInt(0)
    /\ ~FloatLe(FromInt(100), Stored(RatePersona, "success_rate"))
    /\ result.op = "deactivate_persona"

====
